---- MODULE Spec2Model ----
(***************************************************************************)
(* A model of the trador regime-and-decision engine: the position ledger   *)
(* (weighted-average cost basis), the backtest runner and the live trading *)
(* loop.  JavaScript numbers are modelled as exact rationals <<n, d>>      *)
(* (d > 0, lowest terms), so every arithmetic law checked below is a law   *)
(* of the formulas in the code and not of a rounding mode.  Times are      *)
(* whole hours since the epoch.                                            *)
(***************************************************************************)
EXTENDS Integers, Sequences, FiniteSets, TLC

(***************************************************************************)
(* Numbers                                                                 *)
(***************************************************************************)
Abs(i) == IF i < 0 THEN -i ELSE i

RECURSIVE Gcd(_, _)
Gcd(a, b) == IF b = 0 THEN a ELSE Gcd(b, a % b)

\* the rational n/d in lowest terms with a positive denominator
Norm(n, d) ==
  LET s == IF d < 0 THEN -1 ELSE 1
      g == Gcd(Abs(n), Abs(d))
  IN  <<(s * n) \div g, (s * d) \div g>>

Num(i) == <<i, 1>>
Zero == <<0, 1>>
\* null / undefined of the source (never a number: its denominator is 0)
Null == <<0, 0>>

Plus(x, y) ==
  LET g == Gcd(x[2], y[2])
  IN  Norm(x[1] * (y[2] \div g) + y[1] * (x[2] \div g), (x[2] \div g) * y[2])

Neg(x) == <<-x[1], x[2]>>
Minus(x, y) == Plus(x, Neg(y))

Times(x, y) ==
  LET g1 == Gcd(Abs(x[1]), y[2])
      g2 == Gcd(Abs(y[1]), x[2])
  IN  <<(x[1] \div g1) * (y[1] \div g2), (x[2] \div g2) * (y[2] \div g1)>>

\* a number other than NaN and the infinities
Finite(x) == x[2] # 0

\* x / y; a division by zero gives an infinity <<1, 0>>, <<-1, 0>> or NaN <<0, 0>>
Over(x, y) ==
  IF y[1] = 0 THEN <<(IF x[1] > 0 THEN 1 ELSE IF x[1] < 0 THEN -1 ELSE 0), 0>>
  ELSE Times(x, IF y[1] < 0 THEN <<-y[2], -y[1]>> ELSE <<y[2], y[1]>>)

Less(x, y) ==
  LET g == Gcd(x[2], y[2])
  IN  x[1] * (y[2] \div g) < y[1] * (x[2] \div g)

Leq(x, y) == ~Less(y, x)
Min(x, y) == IF Less(y, x) THEN y ELSE x
Max(x, y) == IF Less(x, y) THEN y ELSE x
\* p percent as a factor
Pct(p) == Norm(p, 100)

(***************************************************************************)
(* Position ledger of the backtest: SimulatedPosition                      *)
(***************************************************************************)
EmptyPosition == [amount |-> Zero, costBasis |-> Zero, avgEntryPrice |-> Zero]

BtApplyBuy_FeeInCostBasis(position, buyAmountUsd, price) ==
  LET amount    == Plus(position.amount, Over(buyAmountUsd, price))
      costBasis == Plus(position.costBasis, Times(buyAmountUsd, Norm(1001, 1000)))
  IN  [amount        |-> amount,
       costBasis     |-> costBasis,
       avgEntryPrice |-> Over(costBasis, amount)]

BtApplyBuy_AvgIsFillPrice(position, buyAmountUsd, price) ==
  [amount        |-> Plus(position.amount, Over(buyAmountUsd, price)),
   costBasis     |-> Plus(position.costBasis, buyAmountUsd),
   avgEntryPrice |-> price]

\* position.amount += ...; position.costBasis += ...; avgEntryPrice = costBasis / amount
BtApplyBuy(position, buyAmountUsd, price) ==
  LET amount    == Plus(position.amount, Over(buyAmountUsd, price))
      costBasis == Plus(position.costBasis, buyAmountUsd)
  IN  [amount        |-> amount,
       costBasis     |-> costBasis,
       avgEntryPrice |-> Over(costBasis, amount)]

BtCostBasisPortion(position, sellAmountCrypto) ==
  Times(position.avgEntryPrice, sellAmountCrypto)

\* profitUsdt = sellValue - costBasisPortion - fee
BtProfit(position, sellAmountCrypto, price, fee) ==
  Minus(Minus(Times(sellAmountCrypto, price),
              BtCostBasisPortion(position, sellAmountCrypto)), fee)

BtApplySell_AvgRecomputed(position, sellAmountCrypto) ==
  [amount        |-> Minus(position.amount, sellAmountCrypto),
   costBasis     |-> Minus(position.costBasis,
                           BtCostBasisPortion(position, sellAmountCrypto)),
   avgEntryPrice |-> Over(Minus(position.costBasis,
                                BtCostBasisPortion(position, sellAmountCrypto)),
                          Minus(position.amount, sellAmountCrypto))]

BtApplySell_KeepsCostBasis(position, sellAmountCrypto) ==
  [amount        |-> Minus(position.amount, sellAmountCrypto),
   costBasis     |-> position.costBasis,
   avgEntryPrice |-> position.avgEntryPrice]

\* position.amount -= sellAmountCrypto; position.costBasis -= costBasisPortion
BtApplySell(position, sellAmountCrypto) ==
  [amount        |-> Minus(position.amount, sellAmountCrypto),
   costBasis     |-> Minus(position.costBasis,
                           BtCostBasisPortion(position, sellAmountCrypto)),
   avgEntryPrice |-> position.avgEntryPrice]

(***************************************************************************)
(* Position ledger of the live bot: a row of the positions table           *)
(***************************************************************************)
NewPosition ==
  [strategyId |-> "", status |-> "open", totalAmount |-> Zero, totalCostUsdt |-> Zero,
   averageEntryPrice |-> Null, realizedProfitUsdt |-> Zero,
   totalBuys |-> 0, totalSells |-> 0]

\* an OrderResult as simulateOrder builds it
Order(amount, price, cost, fee) ==
  [amount |-> amount, price |-> price, cost |-> cost, fee |-> fee]

LiveApplyBuy_AvgIsFillPrice(row, position, order) ==
  [row EXCEPT !.totalAmount = Plus(position.totalAmount, order.amount),
              !.totalCostUsdt = Plus(position.totalCostUsdt, order.cost),
              !.averageEntryPrice = order.price,
              !.totalBuys = position.totalBuys + 1]

\* the stored row after executeBuy's db.update(positions): the columns it sets are
\* computed from the position the cycle was handed and the fill
LiveApplyBuy(row, position, order) ==
  LET newTotalAmount == Plus(position.totalAmount, order.amount)
      newTotalCost   == Plus(position.totalCostUsdt, order.cost)
  IN  [row EXCEPT !.totalAmount = newTotalAmount,
                  !.totalCostUsdt = newTotalCost,
                  !.averageEntryPrice = Over(newTotalCost, newTotalAmount),
                  !.totalBuys = position.totalBuys + 1]

\* (position.averageEntryPrice || 0) * amount
LiveCostBasis(position, amount) ==
  Times(IF position.averageEntryPrice = Null THEN Zero
        ELSE position.averageEntryPrice, amount)

\* profitUsdt = order.cost - costBasis - order.fee
LiveProfit(position, amount, order) ==
  Minus(Minus(order.cost, LiveCostBasis(position, amount)), order.fee)

LiveApplySell_NoClamp(row, position, amount, order) ==
  LET newTotalAmount == Minus(position.totalAmount, amount)
  IN  [row EXCEPT
         !.totalAmount = newTotalAmount,
         !.totalCostUsdt = Minus(position.totalCostUsdt, LiveCostBasis(position, amount)),
         !.realizedProfitUsdt =
            Plus(position.realizedProfitUsdt, LiveProfit(position, amount, order)),
         !.totalSells = position.totalSells + 1,
         !.status = IF Leq(newTotalAmount, Zero) THEN "closed" ELSE "partial"]

\* the stored row after executeSell's db.update(positions)
LiveApplySell(row, position, amount, order) ==
  LET newTotalAmount == Minus(position.totalAmount, amount)
      newTotalCost   == Minus(position.totalCostUsdt, LiveCostBasis(position, amount))
  IN  [row EXCEPT
         !.totalAmount = newTotalAmount,
         !.totalCostUsdt = Max(Zero, newTotalCost),
         !.realizedProfitUsdt =
            Plus(position.realizedProfitUsdt, LiveProfit(position, amount, order)),
         !.totalSells = position.totalSells + 1,
         !.status = IF Leq(newTotalAmount, Zero) THEN "closed" ELSE "partial"]

(***************************************************************************)
(* Strategy registry: configs and decide / interpretRegime of each variant *)
(***************************************************************************)
Hold(reason) == [action |-> "hold", amount |-> Null, reason |-> reason]
Buy(amount, reason) == [action |-> "buy", amount |-> amount, reason |-> reason]
Sell(amount, reason) == [action |-> "sell", amount |-> amount, reason |-> reason]

\* (Date.now() - portfolio.lastBuyTime) / (1000 * 60 * 60), the clock in hours
HoursSinceLastBuy(portfolio, clock) == Num(clock - portfolio.lastBuyTime)

\* (portfolio.cryptoValue / portfolio.totalValue) * 100
PositionPercent(portfolio) ==
  Times(Over(portfolio.cryptoValue, portfolio.totalValue), Num(100))

BelowCeiling_Open(params, portfolio) == TRUE

\* positionPercent < this.config.params.maxPositionPercent
BelowCeiling(params, portfolio) ==
  Less(PositionPercent(portfolio), Num(params.maxPositionPercent))

ProfitGate_Open(params, portfolio) == TRUE

\* portfolio.unrealizedPnlPercent >= this.config.params.minProfitToSell
ProfitGate(params, portfolio) ==
  Leq(Num(params.minProfitToSell), portfolio.unrealizedPnlPercent)

MinCrypto_NoFloor(params, market, portfolio) == Zero

\* (portfolio.totalValue * minPositionPercent / 100) / market.price
MinCrypto(params, market, portfolio) ==
  Over(Over(Times(portfolio.totalValue, Num(params.minPositionPercent)), Num(100)),
       market.price)

HodlParams ==
  [maxPositionPercent |-> 100, minPositionPercent |-> 100, buyAmountPercent |-> 100,
   buyFrequencyHours |-> 0, sellAmountPercent |-> 0, minProfitToSell |-> 999999,
   fearThreshold |-> -30, extremeFearThreshold |-> -50,
   greedRsiThreshold |-> 70, extremeGreedRsiThreshold |-> 85]

HodlDecide(market, portfolio, clock) ==
  IF portfolio.cryptoAmount = Zero /\ Less(Zero, portfolio.cash)
  THEN Buy(Times(portfolio.cash, Pct(99)), "Initial HODL purchase")
  ELSE Hold("HODL - never sell")

HodlRegime(market) == "neutral"

DcaParams ==
  [maxPositionPercent |-> 100, minPositionPercent |-> 0, buyAmountPercent |-> 5,
   buyFrequencyHours |-> 168, sellAmountPercent |-> 0, minProfitToSell |-> 999999,
   fearThreshold |-> -30, extremeFearThreshold |-> -50,
   greedRsiThreshold |-> 70, extremeGreedRsiThreshold |-> 85]

DcaDecide(market, portfolio, clock) ==
  LET buyAmount == Times(portfolio.totalValue, Pct(DcaParams.buyAmountPercent))
  IN  IF /\ Leq(Num(DcaParams.buyFrequencyHours), HoursSinceLastBuy(portfolio, clock))
         /\ Leq(buyAmount, portfolio.cash)
      THEN Buy(Min(buyAmount, Times(portfolio.cash, Pct(99))), "Weekly DCA buy")
      ELSE Hold("Waiting for next DCA period")

DcaRegime(market) == "neutral"

\* interpretRegime of the three fear and greed variants; rsiXF / rsiF are the two
\* RSI levels the variant hard-codes (25 / 35 conservative, 30 / 40 the others)
FearGreedRegime(params, rsiXF, rsiF, market) ==
  IF Leq(market.percentFromAth, Num(params.extremeFearThreshold))
     \/ Leq(market.rsi, Num(rsiXF)) THEN "extreme_fear"
  ELSE IF Leq(market.percentFromAth, Num(params.fearThreshold))
          \/ Leq(market.rsi, Num(rsiF)) THEN "fear"
  ELSE IF Leq(Num(params.extremeGreedRsiThreshold), market.rsi) THEN "extreme_greed"
  ELSE IF Leq(Num(params.greedRsiThreshold), market.rsi) THEN "greed"
  ELSE "neutral"

ConservativeParams ==
  [maxPositionPercent |-> 70, minPositionPercent |-> 0, buyAmountPercent |-> 10,
   buyFrequencyHours |-> 72, sellAmountPercent |-> 15, minProfitToSell |-> 30,
   fearThreshold |-> -35, extremeFearThreshold |-> -50,
   greedRsiThreshold |-> 75, extremeGreedRsiThreshold |-> 85]

ConservativeRegime(market) == FearGreedRegime(ConservativeParams, 25, 35, market)

ConservativeDecide(market, portfolio, clock) ==
  LET p == ConservativeParams
      regime == ConservativeRegime(market)
  IN  IF /\ regime = "extreme_fear"
         /\ BelowCeiling(p, portfolio)
         /\ Leq(Num(p.buyFrequencyHours), HoursSinceLastBuy(portfolio, clock))
         /\ Less(Num(100), portfolio.cash)
      THEN Buy(Times(portfolio.cash, Pct(p.buyAmountPercent)),
               "Extreme fear accumulation")
      ELSE IF /\ regime = "extreme_greed"
              /\ Less(Zero, portfolio.cryptoAmount)
              /\ ProfitGate(p, portfolio)
      THEN Sell(Times(portfolio.cryptoAmount, Pct(p.sellAmountPercent)),
                "Extreme greed profit taking")
      ELSE Hold("Waiting for better opportunity")

ModerateParams ==
  [maxPositionPercent |-> 80, minPositionPercent |-> 20, buyAmountPercent |-> 15,
   buyFrequencyHours |-> 48, sellAmountPercent |-> 20, minProfitToSell |-> 15,
   fearThreshold |-> -25, extremeFearThreshold |-> -40,
   greedRsiThreshold |-> 70, extremeGreedRsiThreshold |-> 80]

ModerateRegime(market) == FearGreedRegime(ModerateParams, 30, 40, market)

ModerateDecide(market, portfolio, clock) ==
  LET p == ModerateParams
      regime == ModerateRegime(market)
      buyMultiplier == IF regime = "extreme_fear" THEN Norm(3, 2) ELSE Num(1)
      frequencyMultiplier == IF regime = "extreme_fear" THEN Norm(1, 2) ELSE Num(1)
      buyAmount == Times(Times(portfolio.cash, Pct(p.buyAmountPercent)), buyMultiplier)
      minCrypto == MinCrypto(p, market, portfolio)
      sellMultiplier == IF regime = "extreme_greed" THEN Norm(3, 2) ELSE Num(1)
      maxSellAmount == Minus(portfolio.cryptoAmount, minCrypto)
      sellAmount ==
        Min(Times(Times(portfolio.cryptoAmount, Pct(p.sellAmountPercent)), sellMultiplier),
            maxSellAmount)
  IN  IF /\ regime \in {"extreme_fear", "fear"}
         /\ BelowCeiling(p, portfolio)
         /\ Leq(Times(Num(p.buyFrequencyHours), frequencyMultiplier),
                HoursSinceLastBuy(portfolio, clock))
         /\ Less(Num(100), portfolio.cash)
      THEN Buy(Min(buyAmount, Times(portfolio.cash, Pct(95))), "accumulation")
      ELSE IF /\ regime \in {"greed", "extreme_greed"}
              /\ Less(Zero, portfolio.cryptoAmount)
              /\ ProfitGate(p, portfolio)
              /\ Less(minCrypto, portfolio.cryptoAmount)
              /\ Less(Zero, sellAmount)
      THEN Sell(sellAmount, "profit taking")
      ELSE Hold("Holding")

AggressiveParams ==
  [maxPositionPercent |-> 95, minPositionPercent |-> 60, buyAmountPercent |-> 25,
   buyFrequencyHours |-> 24, sellAmountPercent |-> 10, minProfitToSell |-> 25,
   fearThreshold |-> -20, extremeFearThreshold |-> -35,
   greedRsiThreshold |-> 75, extremeGreedRsiThreshold |-> 85]

AggressiveRegime(market) == FearGreedRegime(AggressiveParams, 30, 40, market)

AggressiveDecide(market, portfolio, clock) ==
  LET p == AggressiveParams
      regime == AggressiveRegime(market)
      positionPercent == PositionPercent(portfolio)
      targetBuy ==
        Times(Over(Minus(Num(p.minPositionPercent), positionPercent), Num(100)),
              portfolio.totalValue)
      buyMultiplier == IF regime = "extreme_fear" THEN Num(2) ELSE Num(1)
      buyAmount == Times(Times(portfolio.cash, Pct(p.buyAmountPercent)), buyMultiplier)
      minCrypto == MinCrypto(p, market, portfolio)
      maxSellAmount == Minus(portfolio.cryptoAmount, minCrypto)
      sellAmount ==
        Min(Times(portfolio.cryptoAmount, Pct(p.sellAmountPercent)), maxSellAmount)
  IN  IF Less(positionPercent, Num(p.minPositionPercent)) /\ Less(Num(100), portfolio.cash)
      THEN Buy(Min(targetBuy, Times(portfolio.cash, Pct(95))),
               "Rebalancing to minimum position")
      ELSE IF /\ regime \in {"extreme_fear", "fear"}
              /\ BelowCeiling(p, portfolio)
              /\ Leq(Num(p.buyFrequencyHours), HoursSinceLastBuy(portfolio, clock))
              /\ Less(Num(100), portfolio.cash)
      THEN Buy(Min(buyAmount, Times(portfolio.cash, Pct(95))), "Aggressive buying")
      ELSE IF /\ regime = "extreme_greed"
              /\ Less(Zero, portfolio.cryptoAmount)
              /\ ProfitGate(p, portfolio)
              /\ Less(minCrypto, portfolio.cryptoAmount)
              /\ Less(Zero, sellAmount)
      THEN Sell(sellAmount, "Trimming at extreme greed")
      ELSE Hold("Staying invested")

MomentumParams ==
  [maxPositionPercent |-> 90, minPositionPercent |-> 10, buyAmountPercent |-> 30,
   buyFrequencyHours |-> 24, sellAmountPercent |-> 30, minProfitToSell |-> 0,
   fearThreshold |-> -30, extremeFearThreshold |-> -50,
   greedRsiThreshold |-> 70, extremeGreedRsiThreshold |-> 85]

\* !market.ma50: null, or the number 0
NoMa(ma) == ma = Null \/ ma = Zero

MomentumDecide(market, portfolio, clock) ==
  LET p == MomentumParams
      aboveMA == Less(market.ma50, market.price)
      minCrypto == MinCrypto(p, market, portfolio)
      maxSellAmount == Minus(portfolio.cryptoAmount, minCrypto)
  IN  IF NoMa(market.ma50) THEN Hold("Waiting for MA data")
      ELSE IF /\ aboveMA
              /\ BelowCeiling(p, portfolio)
              /\ Leq(Num(p.buyFrequencyHours), HoursSinceLastBuy(portfolio, clock))
              /\ Less(Num(100), portfolio.cash)
      THEN Buy(Times(portfolio.cash, Pct(p.buyAmountPercent)), "Uptrend confirmed")
      ELSE IF /\ ~aboveMA
              /\ Less(Zero, portfolio.cryptoAmount)
              /\ Less(Zero, maxSellAmount)
      THEN Sell(Min(Times(portfolio.cryptoAmount, Pct(p.sellAmountPercent)),
                    maxSellAmount), "Downtrend detected")
      ELSE Hold("Trend")

MomentumRegime(market) ==
  IF NoMa(market.ma50) THEN "neutral"
  ELSE LET aboveMA == Less(market.ma50, market.price)
           d == Times(Over(Minus(market.price, market.ma50), market.ma50), Num(100))
           distance == IF Less(d, Zero) THEN Neg(d) ELSE d
       IN  IF aboveMA /\ Less(Num(20), distance) THEN "extreme_greed"
           ELSE IF aboveMA THEN "greed"
           ELSE IF Less(Num(20), distance) THEN "extreme_fear"
           ELSE "fear"

DipParams ==
  [maxPositionPercent |-> 100, minPositionPercent |-> 0, buyAmountPercent |-> 20,
   buyFrequencyHours |-> 48, sellAmountPercent |-> 0, minProfitToSell |-> 999999,
   fearThreshold |-> -10, extremeFearThreshold |-> -20,
   greedRsiThreshold |-> 70, extremeGreedRsiThreshold |-> 85, dipThreshold |-> -10]

DipDecide(market, portfolio, clock) ==
  LET p == DipParams
      inDip == Leq(market.percentFromAth, Num(p.dipThreshold))
      inBigDip == Leq(market.percentFromAth, Num(p.dipThreshold * 2))
      multiplier == IF inBigDip THEN Num(2) ELSE Num(1)
      buyAmount == Times(Times(portfolio.cash, Pct(p.buyAmountPercent)), multiplier)
  IN  IF /\ inDip
         /\ BelowCeiling(p, portfolio)
         /\ Leq(Num(p.buyFrequencyHours), HoursSinceLastBuy(portfolio, clock))
         /\ Less(Num(100), portfolio.cash)
      THEN Buy(Min(buyAmount, Times(portfolio.cash, Pct(95))), "Buying the dip")
      ELSE Hold("Waiting for dip")

DipRegime(market) ==
  IF Leq(market.percentFromAth, Num(-20)) THEN "extreme_fear"
  ELSE IF Leq(market.percentFromAth, Num(-10)) THEN "fear"
  ELSE "neutral"

STRATEGY_REGISTRY ==
  {"hodl", "dca", "fear-greed-conservative", "fear-greed-moderate",
   "fear-greed-aggressive", "momentum", "buy-the-dip"}

\* strategy.decide(market, portfolio); clock is what Date.now() returns in it
Decide(id, market, portfolio, clock) ==
  CASE id = "hodl" -> HodlDecide(market, portfolio, clock)
    [] id = "dca" -> DcaDecide(market, portfolio, clock)
    [] id = "fear-greed-conservative" -> ConservativeDecide(market, portfolio, clock)
    [] id = "fear-greed-moderate" -> ModerateDecide(market, portfolio, clock)
    [] id = "fear-greed-aggressive" -> AggressiveDecide(market, portfolio, clock)
    [] id = "momentum" -> MomentumDecide(market, portfolio, clock)
    [] id = "buy-the-dip" -> DipDecide(market, portfolio, clock)

\* strategy.interpretRegime(market)
InterpretRegime(id, market) ==
  CASE id = "hodl" -> HodlRegime(market)
    [] id = "dca" -> DcaRegime(market)
    [] id = "fear-greed-conservative" -> ConservativeRegime(market)
    [] id = "fear-greed-moderate" -> ModerateRegime(market)
    [] id = "fear-greed-aggressive" -> AggressiveRegime(market)
    [] id = "momentum" -> MomentumRegime(market)
    [] id = "buy-the-dip" -> DipRegime(market)

\* strategy.config.category
Category(id) ==
  CASE id = "hodl" -> "moderate"
    [] id = "dca" -> "conservative"
    [] id = "fear-greed-conservative" -> "conservative"
    [] id = "fear-greed-moderate" -> "moderate"
    [] id = "fear-greed-aggressive" -> "aggressive"
    [] id = "momentum" -> "aggressive"
    [] id = "buy-the-dip" -> "aggressive"

\* strategy.config.params
Params(id) ==
  CASE id = "hodl" -> HodlParams
    [] id = "dca" -> DcaParams
    [] id = "fear-greed-conservative" -> ConservativeParams
    [] id = "fear-greed-moderate" -> ModerateParams
    [] id = "fear-greed-aggressive" -> AggressiveParams
    [] id = "momentum" -> MomentumParams
    [] id = "buy-the-dip" -> DipParams

(***************************************************************************)
(* State                                                                   *)
(***************************************************************************)
VARIABLES
  mode,     \* which part of the program this behaviour exercises
  led,      \* a position ledger driven directly through its buy / sell arithmetic
  bar,      \* one bar on its own: the market, the ledger before it and what the
            \* classifier, the strategy and the execution make of it
  now,      \* Date.now(), in hours
  history,  \* the historical_ohlcv rows of the symbol, oldest first
  requests, \* the body of the POST /api/backtest/run request behind each run
  runs,     \* the backtest runs: record, locals of simulateStrategy, result
  bot,      \* the TradingBot object: isRunning, intervalId and its bot_config row
  timers,   \* the interval timers setInterval has armed and nobody has cleared
  strategies,   \* the strategies table
  positions,    \* the positions table, a row's id being its index
  transactions, \* the transactions table
  cycles,   \* the invocations of runCycle in progress
  starting, \* the invocation of start() in progress
  orders,   \* how many orders the exchange has been sent, and how many it filled
  quiet,    \* stop() or pause() has returned and start() has not been called since
  manual,   \* what the last POST /api/bot/run-cycle did: "ran" a cycle, or "returned"
            \* at the first line of runCycle
  snapshot  \* the combined row (strategyId null) a cycle last inserted into
            \* performance_snapshots

vars == <<mode, led, bar, now, history, requests, runs, bot, timers, strategies, positions,
          transactions, cycles, starting, orders, quiet, manual, snapshot>>
btVars == <<history, requests, runs>>
liveVars == <<bot, timers, strategies, positions, transactions, cycles, starting,
              orders, quiet, manual, snapshot>>

(***************************************************************************)
(* The ledger arithmetic on its own: any sequence of buys and sells, with  *)
(* the fee as an input                                                     *)
(***************************************************************************)
MaxOps == 3
LedgerUsd == {Num(100), Num(300)}
LedgerPrices == {Num(50), Num(100)}
LedgerSellPercentages == {20, 100}
FEE_RATE == Norm(1, 1000)

NoOp == [op |-> "none", amount |-> Zero, price |-> Zero, fee |-> Zero,
         profit |-> Zero, before |-> EmptyPosition]

LedgerIdle == [kind |-> "none", position |-> EmptyPosition, n |-> 0,
               prev |-> NoOp, last |-> NoOp]

NoBar == [kind |-> "none", stage |-> "none"]

LedgerInit ==
  \E kind \in {"bt", "live"} :
    led = [kind |-> kind,
           position |-> IF kind = "bt" THEN EmptyPosition ELSE NewPosition,
           n |-> 0, prev |-> NoOp, last |-> NoOp]

\* the held amount and the cost basis, whichever ledger it is
LedAmount(l) == IF l.kind = "bt" THEN l.position.amount ELSE l.position.totalAmount
LedCost(l) == IF l.kind = "bt" THEN l.position.costBasis ELSE l.position.totalCostUsdt
LedAvg(l) ==
  IF l.kind = "bt" THEN l.position.avgEntryPrice ELSE l.position.averageEntryPrice
PosAmount(kind, position) ==
  IF kind = "bt" THEN position.amount ELSE position.totalAmount
PosCost(kind, position) ==
  IF kind = "bt" THEN position.costBasis ELSE position.totalCostUsdt
PosAvg(kind, position) ==
  IF kind = "bt" THEN position.avgEntryPrice ELSE position.averageEntryPrice

LedgerFinite(l) ==
  Finite(LedAmount(l)) /\ Finite(LedCost(l)) /\ (LedAvg(l) = Null \/ Finite(LedAvg(l)))

\* a buy of usd at price: buyAmountCrypto = buyAmountUsd / price
LedgerBuy(usd, price, fee) ==
  /\ mode = "ledger" /\ led.n < MaxOps /\ LedgerFinite(led)
  /\ LET amount == Over(usd, price)
         after  == IF led.kind = "bt" THEN BtApplyBuy(led.position, usd, price)
                   ELSE LiveApplyBuy(led.position, led.position,
                                     Order(amount, price, usd, fee))
     IN  led' = [led EXCEPT !.position = after, !.n = @ + 1, !.prev = led.last,
                            !.last = [op |-> "buy", amount |-> amount, price |-> price,
                                      fee |-> fee, profit |-> Zero,
                                      before |-> led.position]]
  /\ UNCHANGED <<mode, bar, now, btVars, liveVars>>

\* a sell of amount at price; the backtest sells Math.min(decision.amount, position.amount)
LedgerSell(requested, price, fee) ==
  /\ mode = "ledger" /\ led.n < MaxOps /\ LedgerFinite(led)
  /\ Less(Zero, LedAmount(led))
  /\ LET amount == IF led.kind = "bt" THEN Min(requested, led.position.amount)
                   ELSE requested
         order  == Order(amount, price, Times(amount, price), fee)
         profit == IF led.kind = "bt" THEN BtProfit(led.position, amount, price, fee)
                   ELSE LiveProfit(led.position, amount, order)
         after  == IF led.kind = "bt" THEN BtApplySell(led.position, amount)
                   ELSE LiveApplySell(led.position, led.position, amount, order)
     IN  /\ Less(Zero, amount)
         /\ led' = [led EXCEPT !.position = after, !.n = @ + 1, !.prev = led.last,
                               !.last = [op |-> "sell", amount |-> amount,
                                         price |-> price, fee |-> fee,
                                         profit |-> profit, before |-> led.position]]
  /\ UNCHANGED <<mode, bar, now, btVars, liveVars>>

\* the fees a trade of value usd may carry: none, or the 0.1% the code charges
LedgerFees(usd) == {Zero, Times(usd, FEE_RATE)}

\* the amounts a sell may ask for: the amount just bought, or a percentage of the
\* holding, boosted 1.5x as in extreme greed
LedgerSellRequests ==
  (IF led.last.op = "buy" THEN {led.last.amount} ELSE {})
  \cup {Times(LedAmount(led), Pct(p)) : p \in LedgerSellPercentages}
  \cup {Times(LedAmount(led), Times(Pct(p), Norm(3, 2))) : p \in LedgerSellPercentages}

LedgerBuyStep ==
  \E usd \in LedgerUsd, price \in LedgerPrices :
    \E fee \in LedgerFees(usd) : LedgerBuy(usd, price, fee)

LedgerSellStep ==
  \E requested \in LedgerSellRequests, price \in LedgerPrices :
    \E fee \in LedgerFees(Times(requested, price)) : LedgerSell(requested, price, fee)

(***************************************************************************)
(* The live bot: TradingBot and the tables it works on                     *)
(***************************************************************************)
\* the strategies enabled in the table, in the order a cycle visits them
LiveStrategies == <<"moderate">>
\* bot_config.max_consecutive_errors of the stored configuration
MaxConsecutiveErrors == 2
Cycles == {1, 2}
MaxTimers == 2
MaxPositions == 2
\* the orders the exchange is sent in all: in a behaviour of concurrent cycles and
\* failing writes, and in a behaviour of one cycle after the other without failures
MaxOrders == 1
MaxTrades == 2
LivePrices == {100, 125}

\* the part of the program this behaviour exercises is the live bot
LiveMode == mode \in {"live", "trade", "health", "books"}
\* a handler or a continuation of the live bot may take its turn: start() resumes in
\* the microtask of its awaited cycle's return, before any other callback runs
Live == LiveMode /\ starting # "arm"
OrderCap == IF mode = "live" THEN MaxOrders ELSE MaxTrades

STRATEGY_PRESETS ==
  [conservative |->
     [enabled |-> TRUE, dcaAmountUsdt |-> 30, dcaFrequencyHours |-> 48,
      maxPositionUsdt |-> 1500, minProfitToSell |-> 20, sellPercentage |-> 15,
      fearThreshold |-> -40, extremeFearThreshold |-> -60,
      greedRsiThreshold |-> 75, extremeGreedRsiThreshold |-> 88, lastDcaAt |-> 0],
   moderate |->
     [enabled |-> TRUE, dcaAmountUsdt |-> 50, dcaFrequencyHours |-> 24,
      maxPositionUsdt |-> 2000, minProfitToSell |-> 10, sellPercentage |-> 20,
      fearThreshold |-> -30, extremeFearThreshold |-> -50,
      greedRsiThreshold |-> 70, extremeGreedRsiThreshold |-> 85, lastDcaAt |-> 0],
   aggressive |->
     [enabled |-> TRUE, dcaAmountUsdt |-> 75, dcaFrequencyHours |-> 12,
      maxPositionUsdt |-> 1500, minProfitToSell |-> 5, sellPercentage |-> 25,
      fearThreshold |-> -20, extremeFearThreshold |-> -40,
      greedRsiThreshold |-> 65, extremeGreedRsiThreshold |-> 80, lastDcaAt |-> 0]]

StrategyKeys == {LiveStrategies[k] : k \in 1..Len(LiveStrategies)}

\* what marketAnalysisService.analyze may report: a price, the 14-day RSI and the
\* distance from the all-time high
Analysis(price, rsi14, percentFromAth) ==
  [price |-> Num(price), rsi14 |-> Num(rsi14), percentFromAth |-> Num(percentFromAth)]

Analyses ==
  {Analysis(100, 25, -10), Analysis(100, 35, -10), Analysis(100, 50, -10),
   Analysis(100, 75, -10), Analysis(125, 75, -10), Analysis(125, 90, -10)}

\* the three of them that make the moderate preset buy, hold and sell
ControlAnalyses ==
  {Analysis(100, 35, -10), Analysis(100, 50, -10), Analysis(125, 75, -10)}

NoOrder == Order(Zero, Zero, Zero, Zero)

\* no combined row has been inserted yet
NoSnapshot ==
  [taken |-> FALSE, cryptoAmount |-> Zero, totalCostBasisUsdt |-> Zero,
   realizedProfitUsdt |-> Zero]

IdleCycle ==
  [pc |-> "idle", owner |-> "", todo |-> <<>>, rows |-> <<>>,
   analysis |-> Analysis(0, 0, 0), sid |-> "", pid |-> 0, position |-> NewPosition,
   side |-> "", amount |-> Zero, order |-> NoOrder]

LiveStart ==
  /\ bot = [isRunning |-> FALSE, intervalId |-> 0, status |-> "stopped",
            consecutiveErrors |-> 0]
  /\ timers = {}
  /\ strategies = [k \in StrategyKeys |-> STRATEGY_PRESETS[k]]
  /\ positions = <<>>
  /\ transactions = <<>>
  /\ cycles = [c \in Cycles |-> IdleCycle]
  /\ starting = "no"
  /\ orders = [sent |-> 0, filled |-> 0]
  /\ quiet = FALSE
  /\ manual = "none"
  /\ snapshot = NoSnapshot

LiveIdle == LiveStart

determineRegimeForStrategy(analysis, strategy) ==
  IF Leq(analysis.percentFromAth, Num(strategy.extremeFearThreshold))
     \/ Leq(analysis.rsi14, Num(30)) THEN "extreme_fear"
  ELSE IF Leq(analysis.percentFromAth, Num(strategy.fearThreshold))
          \/ Leq(analysis.rsi14, Num(40)) THEN "fear"
  ELSE IF Leq(Num(strategy.extremeGreedRsiThreshold), analysis.rsi14) THEN "extreme_greed"
  ELSE IF Leq(Num(strategy.greedRsiThreshold), analysis.rsi14) THEN "greed"
  ELSE "neutral"

\* unrealizedPnlPercent of executeStrategy
UnrealizedPnlPercent(position, price) ==
  LET currentValue == Times(position.totalAmount, price)
      unrealizedPnl == Minus(currentValue, position.totalCostUsdt)
  IN  IF Less(Zero, position.totalCostUsdt)
      THEN Times(Over(unrealizedPnl, position.totalCostUsdt), Num(100)) ELSE Zero

\* handleAccumulation up to the call of executeBuy: the amount to buy, or a hold
handleAccumulation(strategy, position, regime, clock) ==
  LET dcaAmount == IF regime = "extreme_fear"
                   THEN Times(Num(strategy.dcaAmountUsdt), Norm(3, 2))
                   ELSE Num(strategy.dcaAmountUsdt)
      lastDca == strategy.lastDcaAt
      hoursSinceLastDca == Num(clock - lastDca)
      requiredHours == IF regime = "extreme_fear"
                       THEN Norm(strategy.dcaFrequencyHours, 2)
                       ELSE Num(strategy.dcaFrequencyHours)
  IN  IF Leq(Num(strategy.maxPositionUsdt), position.totalCostUsdt)
      THEN [side |-> "hold", amount |-> Zero]
      ELSE IF Less(hoursSinceLastDca, requiredHours)
      THEN [side |-> "hold", amount |-> Zero]
      ELSE [side |-> "buy", amount |-> dcaAmount]

\* handleDistribution up to the call of executeSell: the amount to sell, or a hold
handleDistribution(strategy, position, unrealizedPnlPercent, regime) ==
  LET sellPercentage == IF regime = "extreme_greed"
                        THEN Times(Num(strategy.sellPercentage), Norm(3, 2))
                        ELSE Num(strategy.sellPercentage)
      sellAmount == Times(position.totalAmount, Over(sellPercentage, Num(100)))
  IN  IF Leq(position.totalAmount, Zero)
      THEN [side |-> "hold", amount |-> Zero]
      ELSE IF Less(unrealizedPnlPercent, Num(strategy.minProfitToSell))
      THEN [side |-> "hold", amount |-> Zero]
      ELSE [side |-> "sell", amount |-> sellAmount]

\* executeStrategy up to the order it places
executeStrategy(strategy, analysis, position, clock) ==
  LET strategyRegime == determineRegimeForStrategy(analysis, strategy)
      pnl == UnrealizedPnlPercent(position, analysis.price)
      todo == IF strategyRegime \in {"extreme_fear", "fear"}
              THEN handleAccumulation(strategy, position, strategyRegime, clock)
              ELSE IF strategyRegime \in {"greed", "extreme_greed"}
              THEN handleDistribution(strategy, position, pnl, strategyRegime)
              ELSE [side |-> "hold", amount |-> Zero]
  IN  [side |-> todo.side, amount |-> todo.amount, regime |-> strategyRegime]

\* the fill of marketBuy(symbol, amountUsdt) when the ticker shows price
marketBuy(amountUsdt, price) ==
  Order(Over(amountUsdt, price), price, amountUsdt, Times(amountUsdt, FEE_RATE))

\* the fill of marketSell(symbol, amount) when the ticker shows price
marketSell(amount, price) ==
  LET valueUsdt == Times(amount, price)
  IN  Order(amount, price, valueUsdt, Times(valueUsdt, FEE_RATE))

\* the enabled strategies, in table order
ActiveStrategies ==
  SelectSeq(LiveStrategies, LAMBDA k : strategies[k].enabled)

\* runCycle from its first line to the first strategy: returns at once unless the
\* bot is running and a strategy is enabled
\* the slot a new invocation of runCycle takes
FreeSlot(c) == cycles[c].pc = "idle" /\ \A d \in Cycles : d < c => cycles[d].pc # "idle"

BeginCycle(c, owner, analysis, isRunning) ==
  IF isRunning /\ ActiveStrategies # <<>>
  THEN [cycles EXCEPT ![c] = [IdleCycle EXCEPT !.pc = "strategy", !.owner = owner,
                                               !.todo = ActiveStrategies,
                                               !.rows = strategies,
                                               !.analysis = analysis]]
  ELSE cycles

\* start(): isRunning is set at once, the timer is armed only after the awaited
\* first cycle
Start(c, analysis) ==
  /\ Live /\ starting = "no" /\ FreeSlot(c)
  /\ IF bot.isRunning
     THEN UNCHANGED <<bot, cycles, starting, quiet, manual>>
     ELSE /\ bot' = [bot EXCEPT !.isRunning = TRUE, !.status = "running"]
          /\ cycles' = BeginCycle(c, "start", analysis, TRUE)
          /\ starting' = IF cycles'[c].pc = "idle" THEN "arm" ELSE "cycle"
          /\ quiet' = FALSE
  /\ UNCHANGED <<mode, led, bar, now, btVars, snapshot, timers, strategies, positions, transactions,
                 orders, manual>>

\* the last line of start(): this.intervalId = setInterval(...)
StartArm ==
  /\ LiveMode /\ starting = "arm"
  /\ Cardinality(timers) < MaxTimers
  /\ LET id == CHOOSE t \in 1..MaxTimers : t \notin timers
     IN  /\ timers' = timers \cup {id}
         /\ bot' = [bot EXCEPT !.intervalId = id]
  /\ starting' = "no"
  /\ UNCHANGED <<mode, led, bar, now, btVars, snapshot, strategies, positions, transactions, cycles,
                 orders, quiet, manual>>

\* stop() and pause(): isRunning = false, the timer intervalId names is cleared
Halt(status) ==
  /\ bot' = [bot EXCEPT !.isRunning = FALSE, !.intervalId = 0, !.status = status]
  /\ timers' = timers \ {bot.intervalId}

Stop ==
  /\ Live
  /\ Halt("stopped")
  /\ quiet' = TRUE
  /\ UNCHANGED <<mode, led, bar, now, btVars, snapshot, strategies, positions, transactions, cycles,
                 starting, orders, manual>>

Pause ==
  /\ Live
  /\ Halt("paused")
  /\ quiet' = TRUE
  /\ UNCHANGED <<mode, led, bar, now, btVars, snapshot, strategies, positions, transactions, cycles,
                 starting, orders, manual>>

\* an armed interval timer fires: () => this.runCycle()
TimerFire(t, c, analysis) ==
  /\ Live /\ t \in timers /\ FreeSlot(c)
  /\ cycles' = BeginCycle(c, "caller", analysis, bot.isRunning)
  /\ UNCHANGED <<mode, led, bar, now, btVars, snapshot, bot, timers, strategies, positions,
                 transactions, starting, orders, quiet, manual>>

\* POST /api/bot/run-cycle: runManualCycle()
RunManualCycle(c, analysis) ==
  /\ Live /\ FreeSlot(c)
  /\ cycles' = BeginCycle(c, "caller", analysis, bot.isRunning)
  /\ manual' = IF cycles'[c].pc = "idle" THEN "returned" ELSE "ran"
  /\ UNCHANGED <<mode, led, bar, now, btVars, snapshot, bot, timers, strategies, positions,
                 transactions, starting, orders, quiet>>

\* the ids of the rows getOrCreatePosition may return: an open row, else a partial
\* one, else 0 for a row to insert
PositionChoices(sid) ==
  LET open == {id \in 1..Len(positions) :
                 positions[id].strategyId = sid /\ positions[id].status = "open"}
      partial == {id \in 1..Len(positions) :
                    positions[id].strategyId = sid /\ positions[id].status = "partial"}
  IN  IF open # {} THEN open ELSE IF partial # {} THEN partial ELSE {0}

\* the cycle at pc, with only the locals it still reads: once its last strategy
\* has decided, the analysis and the strategy rows are not used again
Remember(cycle, pc, todo) ==
  [IdleCycle EXCEPT !.pc = pc, !.owner = cycle.owner, !.todo = todo,
                    !.rows = IF todo = <<>> THEN <<>> ELSE cycle.rows,
                    !.analysis = IF todo = <<>> THEN IdleCycle.analysis
                                 ELSE cycle.analysis]

\* the cycle moves on after a strategy: the next strategy, or the end of the cycle
AfterStrategy(cycle) ==
  Remember(cycle, IF Tail(cycle.todo) = <<>> THEN "finish" ELSE "strategy",
           Tail(cycle.todo))

\* the cycle leaves the loop through the catch of runCycle
Thrown(cycle) == Remember(cycle, "error", <<>>)

Answered_AsIfFilled(cycle, placed, order, filled) == [placed EXCEPT !.order = order]

\* await exchangeService.marketBuy / marketSell in executeBuy / executeSell: the
\* fill is kept for the writes that follow, a rejection is thrown to runCycle's catch
Answered(cycle, placed, order, filled) ==
  IF filled THEN [placed EXCEPT !.order = order] ELSE Thrown(cycle)

\* executeStrategy for the next strategy of the cycle, up to the answer of the
\* exchange: price is what the ticker shows when the order is placed, filled
\* whether the exchange accepts it
ExecuteStrategy(c, id, price, filled) ==
  /\ Live /\ cycles[c].pc = "strategy"
  /\ LET cycle == cycles[c]
         sid == Head(cycle.todo)
         pid == IF id = 0 THEN Len(positions) + 1 ELSE id
         table == IF id = 0
                  THEN Append(positions, [NewPosition EXCEPT !.strategyId = sid])
                  ELSE positions
         position == table[pid]
         decision == executeStrategy(cycle.rows[sid], cycle.analysis, position, now)
         order == IF decision.side = "buy" THEN marketBuy(decision.amount, Num(price))
                  ELSE marketSell(decision.amount, Num(price))
         placed == [Remember(cycle, "position", Tail(cycle.todo)) EXCEPT
                      !.todo = cycle.todo, !.sid = sid, !.pid = pid,
                      !.position = position, !.side = decision.side,
                      !.amount = decision.amount]
     IN  /\ id \in PositionChoices(sid)
         /\ id = 0 => Len(positions) < MaxPositions
         /\ positions' = table
         /\ IF decision.side = "hold"
            THEN /\ cycles' = [cycles EXCEPT ![c] = AfterStrategy(cycle)]
                 /\ orders' = orders
            ELSE /\ orders.sent < OrderCap
                 /\ orders' = [sent |-> orders.sent + 1,
                                filled |-> orders.filled + (IF filled THEN 1 ELSE 0)]
                 /\ cycles' = [cycles EXCEPT ![c] = Answered(cycle, placed, order, filled)]
  /\ UNCHANGED <<mode, led, bar, now, btVars, snapshot, bot, timers, strategies, transactions,
                 starting, quiet, manual>>

\* db.update(positions) of executeBuy / executeSell
WritePosition(c, stored) ==
  /\ Live /\ cycles[c].pc = "position"
  /\ LET cycle == cycles[c]
     IN  IF stored
         THEN /\ positions' = [positions EXCEPT ![cycle.pid] =
                   IF cycle.side = "buy" THEN LiveApplyBuy(@, cycle.position, cycle.order)
                   ELSE LiveApplySell(@, cycle.position, cycle.amount, cycle.order)]
              /\ cycles' = [cycles EXCEPT ![c].pc =
                   IF cycle.side = "buy" THEN "lastDca" ELSE "transaction"]
         ELSE /\ positions' = positions
              /\ cycles' = [cycles EXCEPT ![c] = Thrown(@)]
  /\ UNCHANGED <<mode, led, bar, now, btVars, snapshot, bot, timers, strategies, transactions,
                 starting, orders, quiet, manual>>

\* db.update(strategies).set({ lastDcaAt: new Date() }) of executeBuy
WriteLastDca(c, stored) ==
  /\ Live /\ cycles[c].pc = "lastDca"
  /\ IF stored
     THEN /\ strategies' = [strategies EXCEPT ![cycles[c].sid].lastDcaAt = now]
          /\ cycles' = [cycles EXCEPT ![c].pc = "transaction"]
     ELSE /\ strategies' = strategies
          /\ cycles' = [cycles EXCEPT ![c] = Thrown(@)]
  /\ UNCHANGED <<mode, led, bar, now, btVars, snapshot, bot, timers, positions, transactions,
                 starting, orders, quiet, manual>>

\* the row executeBuy / executeSell inserts into transactions
Transaction(cycle) ==
  [positionId |-> cycle.pid, strategyId |-> cycle.sid, action |-> cycle.side,
   amount |-> cycle.order.amount, price |-> cycle.order.price,
   valueUsdt |-> cycle.order.cost, fee |-> cycle.order.fee,
   profitUsdt |-> IF cycle.side = "sell"
                  THEN LiveProfit(cycle.position, cycle.amount, cycle.order) ELSE Null]

\* db.insert(transactions), then the rest of executeStrategy
InsertTransaction(c, stored) ==
  /\ Live /\ cycles[c].pc = "transaction"
  /\ IF stored
     THEN /\ transactions' = Append(transactions, Transaction(cycles[c]))
          /\ cycles' = [cycles EXCEPT ![c] = AfterStrategy(@)]
     ELSE /\ transactions' = transactions
          /\ cycles' = [cycles EXCEPT ![c] = Thrown(@)]
  /\ UNCHANGED <<mode, led, bar, now, btVars, snapshot, bot, timers, strategies, positions,
                 starting, orders, quiet, manual>>

\* runCycle has returned: a start() awaiting it goes on to arm its timer
Returned(c) ==
  /\ cycles' = [cycles EXCEPT ![c] = IdleCycle]
  /\ starting' = IF cycles[c].owner = "start" THEN "arm" ELSE starting

\* the rows the select of takeCombinedPerformanceSnapshot may return for a
\* strategy: one with status 'open', or 0 when there is none
SnapshotChoices(sid) ==
  LET open == {id \in 1..Len(positions) :
                 positions[id].strategyId = sid /\ positions[id].status = "open"}
  IN  IF open # {} THEN open ELSE {0}

\* the totals of the combined row takeCombinedPerformanceSnapshot inserts: its loop
\* over activeStrategies, pick naming the row its select returned for each strategy
RECURSIVE takeCombinedPerformanceSnapshot(_, _)
takeCombinedPerformanceSnapshot(activeStrategies, pick) ==
  IF activeStrategies = <<>>
  THEN [taken |-> TRUE, cryptoAmount |-> Zero, totalCostBasisUsdt |-> Zero,
        realizedProfitUsdt |-> Zero]
  ELSE LET n == Len(activeStrategies)
           totals == takeCombinedPerformanceSnapshot(SubSeq(activeStrategies, 1, n - 1), pick)
           id == pick[activeStrategies[n]]
       IN  IF id = 0 THEN totals
           ELSE [totals EXCEPT
                   !.cryptoAmount = Plus(@, positions[id].totalAmount),
                   !.totalCostBasisUsdt = Plus(@, positions[id].totalCostUsdt),
                   !.realizedProfitUsdt = Plus(@, positions[id].realizedProfitUsdt)]

\* the end of a cycle without error: takeCombinedPerformanceSnapshot, resetErrors()
FinishCycle(c) ==
  /\ Live /\ cycles[c].pc = "finish"
  /\ \E pick \in [StrategyKeys -> 0..Len(positions)] :
       /\ \A k \in StrategyKeys : pick[k] \in SnapshotChoices(k)
       /\ snapshot' = takeCombinedPerformanceSnapshot(ActiveStrategies, pick)
  /\ bot' = [bot EXCEPT !.consecutiveErrors = 0]
  /\ Returned(c)
  /\ UNCHANGED <<mode, led, bar, now, btVars, timers, strategies, positions, transactions,
                 orders, quiet, manual>>

\* the catch of runCycle: handleError counts the error and pauses the bot at the
\* limit; runCycle then returns normally
HandleError(c) ==
  /\ Live /\ cycles[c].pc = "error"
  /\ LET newErrorCount == bot.consecutiveErrors + 1
     IN  IF newErrorCount >= MaxConsecutiveErrors
         THEN /\ bot' = [bot EXCEPT !.consecutiveErrors = newErrorCount,
                                     !.isRunning = FALSE, !.intervalId = 0,
                                     !.status = "error"]
              /\ timers' = timers \ {bot.intervalId}
         ELSE /\ bot' = [bot EXCEPT !.consecutiveErrors = newErrorCount]
              /\ timers' = timers
  /\ Returned(c)
  /\ UNCHANGED <<mode, led, bar, now, btVars, snapshot, strategies, positions, transactions,
                 orders, quiet, manual>>

\* PUT /api/strategies/:id: any number is accepted for a numeric column
StrategyUpdates == {[sellPercentage |-> 100], [minProfitToSell |-> 0]}

UpdateStrategy(sid, updates) ==
  /\ Live
  /\ strategies' = [strategies EXCEPT ![sid] =
       [f \in DOMAIN @ |-> IF f \in DOMAIN updates THEN updates[f] ELSE @[f]]]
  /\ UNCHANGED <<mode, led, bar, now, btVars, snapshot, bot, timers, positions, transactions, cycles,
                 starting, orders, quiet, manual>>

(***************************************************************************)
(* Historical data and its indicators: processDataWithIndicators           *)
(***************************************************************************)
\* The stored candles are WarmUpBars candles closing at WarmUpPrice followed by
\* a tail of up to MaxTail candles; a candle's high is its close.  Candle i
\* (from 0) opens at hour DayHours * i.
WarmUpBars == 200
WarmUpPrice == 100
MaxTail == 2
BarPrices == {80, 100, 160}
DayHours == 24
StartIndex == 200
MinBars == 201

DataLength(h) == h.warm + Len(h.tail)
Close(h, i) == IF i < h.warm THEN WarmUpPrice ELSE h.tail[i - h.warm + 1]
High(h, i) == Close(h, i)
Timestamp(i) == DayHours * i

\* closes[lo] + ... + closes[hi]
RECURSIVE SumCloses(_, _, _)
SumCloses(h, lo, hi) ==
  IF hi < lo THEN 0
  ELSE IF hi < h.warm THEN WarmUpPrice * (hi - lo + 1)
  ELSE Close(h, hi) + SumCloses(h, lo, hi - 1)

\* calculateSMA(closes.slice(i - period + 1, i + 1), period)
CalculateSMA(h, i, period) == Norm(SumCloses(h, i - period + 1, i), period)

\* the sum of the rises (up) or of the falls (~up) closes[j] - closes[j - 1], lo <= j <= hi
RECURSIVE SumChanges(_, _, _, _)
SumChanges(h, lo, hi, up) ==
  IF hi < lo THEN 0
  ELSE IF hi < h.warm THEN 0
  ELSE LET change == Close(h, hi) - Close(h, hi - 1)
       IN  (IF up /\ change > 0 THEN change
            ELSE IF ~up /\ change <= 0 THEN -change ELSE 0)
           + SumChanges(h, lo, hi - 1, up)

\* calculateRSI(closes.slice(0, i + 1), period)
CalculateRSI(h, i, period) ==
  IF i + 1 < period + 1 THEN Num(50)
  ELSE LET avgGain == Norm(SumChanges(h, i - period + 1, i, TRUE), period)
           avgLoss == Norm(SumChanges(h, i - period + 1, i, FALSE), period)
       IN  IF avgLoss = Zero THEN Num(100)
           ELSE Minus(Num(100), Over(Num(100), Plus(Num(1), Over(avgGain, avgLoss))))

\* Math.max(...rawData.slice(0, i + 1).map(d => d.high))
RECURSIVE CurrentATH(_, _)
CurrentATH(h, i) ==
  IF i < h.warm THEN WarmUpPrice
  ELSE LET rest == IF i = 0 THEN High(h, i) ELSE CurrentATH(h, i - 1)
       IN  IF High(h, i) > rest THEN High(h, i) ELSE rest

\* a value the source treats as true: neither null nor 0
Truthy(x) == x # Null /\ x # Zero

\* the part of the score the deviation of the price from the 200-day average gives
MaDeviationScore(maDeviation) ==
  IF Less(maDeviation, Num(-20)) THEN -20
  ELSE IF Less(maDeviation, Zero) THEN -10
  ELSE IF Less(Num(50), maDeviation) THEN 20
  ELSE IF Less(Num(20), maDeviation) THEN 10 ELSE 0

\* the part of the backtest classifier's score the RSI gives
RsiScore(rsi) ==
  IF Leq(Num(85), rsi) THEN 30
  ELSE IF Leq(Num(70), rsi) THEN 20
  ELSE IF Leq(rsi, Num(30)) THEN -30
  ELSE IF Leq(rsi, Num(40)) THEN -15 ELSE 0

CalculateRegimeScore(price, ma200, ma50, rsi, percentFromAth) ==
  (IF Leq(percentFromAth, Num(-50)) THEN -40
   ELSE IF Leq(percentFromAth, Num(-30)) THEN -25
   ELSE IF Leq(Num(-10), percentFromAth) THEN 20 ELSE 0)
  + RsiScore(rsi)
  + (IF ~Truthy(ma200) THEN 0
     ELSE MaDeviationScore(Times(Over(Minus(price, ma200), ma200), Num(100))))
  + (IF ~(Truthy(ma50) /\ Truthy(ma200)) THEN 0
     ELSE IF Less(Times(ma200, Norm(105, 100)), ma50) THEN 10
     ELSE IF Less(ma50, Times(ma200, Norm(95, 100))) THEN -10 ELSE 0)

DEFAULT_THRESHOLDS ==
  [fearThreshold |-> -30, extremeFearThreshold |-> -50,
   greedRsiThreshold |-> 70, extremeGreedRsiThreshold |-> 85]

\* "Factor 2: RSI" of the live classifier
LiveRsiScore(rsi, thresholds) ==
  IF Leq(Num(thresholds.extremeGreedRsiThreshold), rsi) THEN 30
  ELSE IF Leq(Num(thresholds.greedRsiThreshold), rsi) THEN 20
  ELSE IF Leq(rsi, Num(30)) THEN -30
  ELSE IF Leq(rsi, Num(40)) THEN -15 ELSE 0

\* the score of MarketAnalysisService.calculateRegime, the classifier of the live bot
calculateRegime(price, ma200, ma50, rsi, percentFromAth, thresholds) ==
  (IF Leq(percentFromAth, Num(thresholds.extremeFearThreshold)) THEN -40
   ELSE IF Leq(percentFromAth, Num(thresholds.fearThreshold)) THEN -25
   ELSE IF Leq(Num(-10), percentFromAth) THEN 20 ELSE 0)
  + LiveRsiScore(rsi, thresholds)
  + (IF ~Truthy(ma200) THEN 0
     ELSE MaDeviationScore(Times(Over(Minus(price, ma200), ma200), Num(100))))
  + (IF ~(Truthy(ma50) /\ Truthy(ma200)) THEN 0
     ELSE IF Less(Times(ma200, Norm(105, 100)), ma50) THEN 10
     ELSE IF Less(ma50, Times(ma200, Norm(95, 100))) THEN -10 ELSE 0)

RegimeOfScore_StrictBreakpoints(score) ==
  IF score < -50 THEN "extreme_fear"
  ELSE IF score < -20 THEN "fear"
  ELSE IF score > 50 THEN "extreme_greed"
  ELSE IF score > 20 THEN "greed"
  ELSE "neutral"

\* "let regime" at the end of the backtest's calculateRegime
RegimeOfScore(score) ==
  IF score <= -50 THEN "extreme_fear"
  ELSE IF score <= -20 THEN "fear"
  ELSE IF score >= 50 THEN "extreme_greed"
  ELSE IF score >= 20 THEN "greed"
  ELSE "neutral"

\* "Determine regime from score" at the end of the live calculateRegime
LiveRegimeOfScore(score) ==
  IF score <= -50 THEN "extreme_fear"
  ELSE IF score <= -20 THEN "fear"
  ELSE IF score >= 50 THEN "extreme_greed"
  ELSE IF score >= 20 THEN "greed"
  ELSE "neutral"

\* ((candle.close - currentATH) / currentATH) * 100
PercentFromAth(close, currentATH) ==
  Times(Over(Minus(close, currentATH), currentATH), Num(100))

\* the element processDataWithIndicators pushes for candle i
Processed(i, close, ma200, ma50, rsi, percentFromAth, regimeScore) ==
  [timestamp |-> Timestamp(i), close |-> close, ma200 |-> ma200, ma50 |-> ma50,
   rsi |-> rsi, percentFromAth |-> percentFromAth,
   regime |-> RegimeOfScore(regimeScore), regimeScore |-> regimeScore]

WithRegime(i, close, ma200, ma50, rsi, percentFromAth) ==
  Processed(i, close, ma200, ma50, rsi, percentFromAth,
            CalculateRegimeScore(close, ma200, ma50, rsi, percentFromAth))

\* one element of processDataWithIndicators(rawData)
DailyData(h, i) ==
  WithRegime(i, Num(Close(h, i)),
             IF i >= 199 THEN CalculateSMA(h, i, 200) ELSE Null,
             IF i >= 49 THEN CalculateSMA(h, i, 50) ELSE Null,
             IF i >= 14 THEN CalculateRSI(h, i, 14) ELSE Num(50),
             PercentFromAth(Num(Close(h, i)), Num(CurrentATH(h, i))))


(***************************************************************************)
(* The backtest runner: runBacktest and simulateStrategy                   *)
(***************************************************************************)
Runs == {1, 2}
Capitals == {1000}
\* the ids a request may carry: a registered one, one that is not, or none
StrategyIds == STRATEGY_REGISTRY \cup {"martingale", ""}
\* the clock starts half a day into the newest candle and advances in ClockStep hours
ClockStart == Timestamp(WarmUpBars + MaxTail - 1) + 12
ClockStep == 144
MaxTicks == 1
\* runs whose numbers have outgrown DenCap are not stepped further
DenCap == 1000

Small(x) == x[2] <= DenCap

NoRun ==
  [status |-> "none", strategyId |-> "", initialCapital |-> Zero, error |-> "",
   i |-> 0, cash |-> Zero, position |-> EmptyPosition, lastBuyTime |-> 0,
   trades |-> <<>>, snapshots |-> <<>>, equityCurve |-> <<>>, progress |-> 0,
   mutations |-> 0, metrics |-> <<>>]

NoHistory == [warm |-> 0, tail |-> <<>>]

NoRequest == [strategyId |-> "none", initialCapital |-> 0]

BacktestQuiet ==
  /\ history = NoHistory
  /\ requests = [r \in Runs |-> NoRequest]
  /\ runs = [r \in Runs |-> NoRun]

BacktestIdle == now = ClockStart /\ BacktestQuiet

Tails == UNION {[1..n -> BarPrices] : n \in 0..MaxTail}

BacktestInit ==
  /\ now = ClockStart
  /\ \E warm \in {WarmUpBars - 1, WarmUpBars}, tail \in Tails :
       history = [warm |-> warm, tail |-> tail]
  /\ requests = [r \in Runs |-> NoRequest]
  /\ runs = [r \in Runs |-> NoRun]

\* getStrategy(id): the registered strategy, or null
GetStrategy(id) == IF id \in STRATEGY_REGISTRY THEN id ELSE "null"

InsufficientData_Never(rawDataLength) == FALSE

\* rawData.length < 201
InsufficientData(rawDataLength) == rawDataLength < MinBars

\* runBacktest up to the first loop iteration: the strategy lookup, the record,
\* the data and the locals of simulateStrategy
\* the locals of simulateStrategy before its loop: cash is the initial capital, the
\* position is empty, lastBuyTime is 0
StartedRun(strategyId, initialCapital) ==
  [NoRun EXCEPT !.status = "running", !.strategyId = strategyId,
                !.initialCapital = initialCapital,
                !.i = StartIndex, !.cash = initialCapital]

RunBacktest(r, strategyId, initialCapital) ==
  /\ mode = "backtest"
  /\ runs[r].status = "none"
  /\ \A q \in Runs : q < r => runs[q].status # "none"
  /\ runs' = [runs EXCEPT ![r] =
       IF GetStrategy(strategyId) = "null"
       THEN [NoRun EXCEPT !.status = "rejected", !.strategyId = strategyId,
                          !.error = "Unknown strategy"]
       ELSE IF InsufficientData(DataLength(history))
       THEN [NoRun EXCEPT !.status = "failed", !.strategyId = strategyId,
                          !.initialCapital = Num(initialCapital),
                          !.error = "Insufficient data"]
       ELSE StartedRun(strategyId, Num(initialCapital))]
  /\ UNCHANGED <<mode, led, bar, now, history, liveVars>>

\* body.strategyId || "fear-greed-moderate": an empty or absent id is falsy
RequestedStrategyId(body) ==
  IF body.strategyId = "" THEN "fear-greed-moderate" ELSE body.strategyId

\* POST /api/backtest/run: the strategy id is defaulted, then looked up, then
\* runBacktest is called with it
PostBacktestRun(r, body) ==
  /\ requests' = [requests EXCEPT ![r] = body]
  /\ RunBacktest(r, RequestedStrategyId(body),
                 IF body.initialCapital = 0 THEN 1000 ELSE body.initialCapital)

\* the MarketConditions and PortfolioState simulateStrategy builds for data[i]
MarketOf(day) ==
  [price |-> day.close, rsi |-> day.rsi, ma50 |-> day.ma50, ma200 |-> day.ma200,
   percentFromAth |-> day.percentFromAth, regime |-> day.regime,
   regimeScore |-> day.regimeScore]

PortfolioOf(run, price) ==
  LET cryptoValue == Times(run.position.amount, price)
      unrealizedPnl == Minus(cryptoValue, run.position.costBasis)
  IN  [cash |-> run.cash, cryptoAmount |-> run.position.amount,
       cryptoValue |-> cryptoValue, totalValue |-> Plus(run.cash, cryptoValue),
       costBasis |-> run.position.costBasis,
       avgEntryPrice |-> run.position.avgEntryPrice,
       unrealizedPnlPercent |->
         IF Less(Zero, run.position.costBasis)
         THEN Times(Over(unrealizedPnl, run.position.costBasis), Num(100)) ELSE Zero,
       lastBuyTime |-> run.lastBuyTime]

\* Math.min(decision.amount, cash * 0.99)
BuyAmountUsd(decision, cash) == Min(decision.amount, Times(cash, Pct(99)))

\* Math.min(decision.amount, position.amount)
SellAmountCrypto(decision, position) == Min(decision.amount, position.amount)

Execution_NoMinimum(decision, cash, position) ==
  IF decision.action = "buy" /\ Truthy(decision.amount) /\ Less(Zero, decision.amount)
  THEN "buy"
  ELSE IF decision.action = "sell" /\ Truthy(decision.amount)
          /\ Less(Zero, decision.amount)
  THEN (IF Less(Zero, SellAmountCrypto(decision, position)) THEN "sell" ELSE "none")
  ELSE "none"

\* which branch of "Execute decision" runs
Execution(decision, cash, position) ==
  IF decision.action = "buy" /\ Truthy(decision.amount) /\ Less(Zero, decision.amount)
  THEN (IF Leq(Num(10), BuyAmountUsd(decision, cash)) THEN "buy" ELSE "none")
  ELSE IF decision.action = "sell" /\ Truthy(decision.amount)
          /\ Less(Zero, decision.amount)
  THEN (IF Less(Zero, SellAmountCrypto(decision, position)) THEN "sell" ELSE "none")
  ELSE "none"

\* the locals after the buy branch, and the row it inserts
AfterBuy(run, day, decision, strategyRegime) ==
  LET price == day.close
      buyAmountUsd == BuyAmountUsd(decision, run.cash)
      buyAmountCrypto == Over(buyAmountUsd, price)
      fee == Times(buyAmountUsd, FEE_RATE)
      position == BtApplyBuy(run.position, buyAmountUsd, price)
      cash == Minus(run.cash, Plus(buyAmountUsd, fee))
  IN  [execution |-> "buy",
       cash |-> cash, position |-> position, lastBuyTime |-> day.timestamp,
       trade |-> [action |-> "buy", timestamp |-> day.timestamp, price |-> price,
                  amount |-> buyAmountCrypto, valueUsdt |-> buyAmountUsd, fee |-> fee,
                  regime |-> strategyRegime, reason |-> decision.reason,
                  costBasis |-> Null, profitUsdt |-> Null,
                  portfolioValue |-> Plus(cash, Times(position.amount, price)),
                  cashBalance |-> cash, cryptoBalance |-> position.amount]]

AfterSell_FeeNotCharged(run, day, decision, strategyRegime) ==
  LET price == day.close
      sellAmountCrypto == SellAmountCrypto(decision, run.position)
      sellValue == Times(sellAmountCrypto, price)
      fee == Times(sellValue, FEE_RATE)
      position == BtApplySell(run.position, sellAmountCrypto)
      cash == Plus(run.cash, sellValue)
  IN  [execution |-> "sell",
       cash |-> cash, position |-> position, lastBuyTime |-> run.lastBuyTime,
       trade |-> [action |-> "sell", timestamp |-> day.timestamp, price |-> price,
                  amount |-> sellAmountCrypto, valueUsdt |-> sellValue, fee |-> fee,
                  regime |-> strategyRegime, reason |-> decision.reason,
                  costBasis |-> BtCostBasisPortion(run.position, sellAmountCrypto),
                  profitUsdt |-> BtProfit(run.position, sellAmountCrypto, price, fee),
                  portfolioValue |-> Plus(cash, Times(position.amount, price)),
                  cashBalance |-> cash, cryptoBalance |-> position.amount]]

\* the locals after the sell branch, and the row it inserts
AfterSell(run, day, decision, strategyRegime) ==
  LET price == day.close
      sellAmountCrypto == SellAmountCrypto(decision, run.position)
      sellValue == Times(sellAmountCrypto, price)
      fee == Times(sellValue, FEE_RATE)
      position == BtApplySell(run.position, sellAmountCrypto)
      cash == Plus(run.cash, Minus(sellValue, fee))
  IN  [execution |-> "sell",
       cash |-> cash, position |-> position, lastBuyTime |-> run.lastBuyTime,
       trade |-> [action |-> "sell", timestamp |-> day.timestamp, price |-> price,
                  amount |-> sellAmountCrypto, valueUsdt |-> sellValue, fee |-> fee,
                  regime |-> strategyRegime, reason |-> decision.reason,
                  costBasis |-> BtCostBasisPortion(run.position, sellAmountCrypto),
                  profitUsdt |-> BtProfit(run.position, sellAmountCrypto, price, fee),
                  portfolioValue |-> Plus(cash, Times(position.amount, price)),
                  cashBalance |-> cash, cryptoBalance |-> position.amount]]

\* (a / b) rounded down, for a >= 0 and b > 0: Math.floor
Floor(x) == x[1] \div x[2]

\* "Execute decision": the locals after it, and the trade row when there is one
Executed(run, day, decision, strategyRegime) ==
  LET execution == Execution(decision, run.cash, run.position)
  IN  IF execution = "buy" THEN AfterBuy(run, day, decision, strategyRegime)
      ELSE IF execution = "sell" THEN AfterSell(run, day, decision, strategyRegime)
      ELSE [execution |-> "none", cash |-> run.cash, position |-> run.position,
            lastBuyTime |-> run.lastBuyTime]

\* the rest of the iteration: the locals are already changed when the trade row is
\* inserted; then the trade list, the snapshot, the equity curve and the progress
Recorded(run, h, day, after, insertOk) ==
  LET value == Plus(after.cash, Times(after.position.amount, day.close))
      newProgress == Floor(Norm((run.i - StartIndex) * 100, DataLength(h) - StartIndex))
      mutated == [run EXCEPT !.cash = after.cash, !.position = after.position,
                             !.lastBuyTime = after.lastBuyTime,
                             !.mutations = @ + (IF after.execution = "none" THEN 0 ELSE 1)]
  IN  IF after.execution # "none" /\ ~insertOk
      THEN [mutated EXCEPT !.status = "failed", !.error = "insert failed"]
      ELSE [mutated EXCEPT
              !.trades = IF after.execution = "none" THEN @ ELSE Append(@, after.trade),
              !.snapshots = IF run.i % 7 = 0 \/ run.i = DataLength(h) - 1
                            THEN Append(@, value) ELSE @,
              !.equityCurve = Append(@, value),
              !.progress = IF newProgress > @ THEN newProgress ELSE @,
              !.i = run.i + 1]

\* the iteration for data[i] = day: the strategy is asked, the decision executed
OnDay(run, h, day, clock, insertOk) ==
  Recorded(run, h, day,
           Executed(run, day,
                    Decide(run.strategyId, MarketOf(day), PortfolioOf(run, day.close), clock),
                    InterpretRegime(run.strategyId, MarketOf(day))),
           insertOk)

\* one iteration of the loop of simulateStrategy, for data[run.i]; clock is what
\* Date.now() returns to the strategy, insertOk whether the trade row is stored
SimulateDay(run, h, clock, insertOk) == OnDay(run, h, DailyData(h, run.i), clock, insertOk)

RunSmall(run) ==
  Small(run.cash) /\ Small(run.position.amount) /\ Small(run.position.costBasis)

BarStep_SharedLedger(r, insertOk) ==
  /\ mode = "backtest"
  /\ runs[r].status = "running"
  /\ runs[r].i < DataLength(history)
  /\ RunSmall(runs[r])
  /\ runs' = [runs EXCEPT ![r] =
       SimulateDay([runs[r] EXCEPT !.cash = runs[1].cash, !.position = runs[1].position,
                                   !.lastBuyTime = runs[1].lastBuyTime],
                   history, now, insertOk)]
  /\ UNCHANGED <<mode, led, bar, now, history, requests, liveVars>>

BarStep(r, insertOk) ==
  /\ mode = "backtest"
  /\ runs[r].status = "running"
  /\ runs[r].i < DataLength(history)
  /\ RunSmall(runs[r])
  /\ runs' = [runs EXCEPT ![r] = SimulateDay(runs[r], history, now, insertOk)]
  /\ UNCHANGED <<mode, led, bar, now, history, requests, liveVars>>

\* calculateMetrics, as far as it is rational arithmetic
CalculateMetrics(run) ==
  LET finalValue == IF run.equityCurve # <<>> /\ Truthy(run.equityCurve[Len(run.equityCurve)])
                    THEN run.equityCurve[Len(run.equityCurve)] ELSE run.initialCapital
      sells == {k \in 1..Len(run.trades) : run.trades[k].action = "sell"}
  IN  [finalCapital |-> finalValue,
       totalReturnUsdt |-> Minus(finalValue, run.initialCapital),
       totalTrades |-> Len(run.trades),
       profitableTrades |->
         Cardinality({k \in sells : Less(Zero, run.trades[k].profitUsdt)})]

\* the end of runBacktest: the loop is over, metrics are computed and stored
CompleteBacktest(r) ==
  /\ mode = "backtest"
  /\ runs[r].status = "running"
  /\ runs[r].i = DataLength(history)
  /\ runs' = [runs EXCEPT ![r] = [@ EXCEPT !.status = "completed", !.progress = 100,
                                           !.metrics = CalculateMetrics(runs[r])]]
  /\ UNCHANGED <<mode, led, bar, now, history, requests, liveVars>>

\* time passes
Tick ==
  /\ mode \in {"backtest", "live", "trade", "health", "books"}
  /\ now < ClockStart + MaxTicks * ClockStep
  /\ now' = now + ClockStep
  /\ UNCHANGED <<mode, led, bar, btVars, liveVars>>

(***************************************************************************)
(* One bar on its own: a market and a ledger drawn from small sets, then   *)
(* the iteration of simulateStrategy for it, or the live bot's analysis of *)
(* it for one of its strategies                                            *)
(***************************************************************************)
BarCloses == {90, 112, 125, 160}
BarRsis == {25, 35, 50, 78, 90}
BarAths == {-5, -15, -40, -50}
BarMa50s == {Num(90), Num(110)}
BarMa200s == {Num(100), Num(120)}
BarCash == {0, 150, 1000}
BarAmounts == {0, 1, 10, 40}
\* the bar is the newest candle; an earlier buy was made one or two candles before
BarIndex == WarmUpBars + MaxTail - 1
BarLastBuyTimes == {0, Timestamp(BarIndex - 1), Timestamp(BarIndex - 2)}

\* a position of amount bought at 100
HeldAt100(amount) ==
  [amount |-> Num(amount), costBasis |-> Num(amount * 100),
   avgEntryPrice |-> IF amount = 0 THEN Zero ELSE Num(100)]

\* the locals of simulateStrategy when the loop reaches the bar
BarRun(id, cash, amount, lastBuyTime) ==
  [NoRun EXCEPT !.status = "running", !.strategyId = id,
                !.initialCapital = Num(1000), !.i = BarIndex, !.cash = Num(cash),
                !.position = HeldAt100(amount), !.lastBuyTime = lastBuyTime]

BarInit ==
  \E close \in BarCloses, rsi \in BarRsis, ath \in BarAths,
     ma50 \in BarMa50s, ma200 \in BarMa200s :
    \/ \E id \in STRATEGY_REGISTRY, cash \in BarCash, amount \in BarAmounts,
          lastBuyTime \in BarLastBuyTimes :
         /\ cash + amount > 0
         /\ bar = [kind |-> "backtest", stage |-> "input",
                   day |-> WithRegime(BarIndex, Num(close), ma200, ma50, Num(rsi), Num(ath)),
                   run |-> BarRun(id, cash, amount, lastBuyTime)]
    \/ \E sid \in DOMAIN STRATEGY_PRESETS :
         bar = [kind |-> "live", stage |-> "input", sid |-> sid,
                price |-> Num(close), ma200 |-> ma200, ma50 |-> ma50,
                rsi14 |-> Num(rsi), percentFromAth |-> Num(ath)]

\* the bar after its iteration: what the strategy decided and the locals after the
\* execution of the decision
Simulated(b, decision, strategyRegime) ==
  [b EXCEPT !.stage = "simulated"] @@
  [decision |-> decision, strategyRegime |-> strategyRegime,
   after |-> Executed(b.run, b.day, decision, strategyRegime)]

\* one iteration of simulateStrategy up to the trade row, on the bar's ledger
SimulateBar ==
  /\ mode = "bar" /\ bar.kind = "backtest" /\ bar.stage = "input"
  /\ bar' = Simulated(bar,
                      Decide(bar.run.strategyId, MarketOf(bar.day),
                             PortfolioOf(bar.run, bar.day.close), now),
                      InterpretRegime(bar.run.strategyId, MarketOf(bar.day)))
  /\ UNCHANGED <<mode, led, now, btVars, liveVars>>

\* marketAnalysisService.analyze(symbol) as runCycle calls it, then the regime
\* executeStrategy determines for the strategy
Analyze ==
  /\ mode = "bar" /\ bar.kind = "live" /\ bar.stage = "input"
  /\ bar' = [bar EXCEPT !.stage = "analyzed"] @@
            [regimeScore |-> calculateRegime(bar.price, bar.ma200, bar.ma50, bar.rsi14,
                                             bar.percentFromAth, DEFAULT_THRESHOLDS),
             strategyRegime |->
               determineRegimeForStrategy(bar, STRATEGY_PRESETS[bar.sid])]
  /\ UNCHANGED <<mode, led, now, btVars, liveVars>>

NextBar == SimulateBar \/ Analyze

InitBar ==
  /\ mode = "bar" /\ led = LedgerIdle /\ now = ClockStart /\ BarInit
  /\ BacktestQuiet /\ LiveIdle

SpecBar == InitBar /\ [][NextBar]_vars

(***************************************************************************)
(* The indicators on their own: a score, or a series of closes             *)
(***************************************************************************)
\* the period both callers pass to calculateRSI
RsiPeriod == 14

\* the scores a classifier can be asked to name
Scores == -100..100

\* A series of closes is a ramp from 100 of up to MaxCloses candles, rising,
\* falling or flat, followed by up to MaxRsiTail candles at any of RsiTailCloses.
MaxCloses == 20
MaxRsiTail == 3
RampSteps == {-3, 0, 3}
RsiTailCloses == {80, 100, 160}
Ramp(n, step) == [i \in 1..n |-> 100 + step * (i - 1)]
RsiTails == UNION {[1..k -> RsiTailCloses] : k \in 0..MaxRsiTail}
ClosesInputs ==
  {Ramp(n, step) \o tail : n \in 0..MaxCloses, step \in RampSteps, tail \in RsiTails}

\* the [timestamp, open, high, low, close, volume] rows the exchange returns
Ohlcv(closes) ==
  [i \in 1..Len(closes) |->
     <<Timestamp(i - 1), closes[i], closes[i], closes[i], closes[i], 0>>]

\* changes.push(closes[i] - closes[i - 1]) for i from 1
Changes(closes) == [j \in 1..(Len(closes) - 1) |-> closes[j + 1] - closes[j]]

\* seq.slice(-n)
LastOf(seq, n) ==
  SubSeq(seq, (IF Len(seq) > n THEN Len(seq) - n + 1 ELSE 1), Len(seq))

\* if (change > 0) gains += change
RECURSIVE Gains(_)
Gains(changes) ==
  IF changes = <<>> THEN 0
  ELSE (IF Head(changes) > 0 THEN Head(changes) ELSE 0) + Gains(Tail(changes))

RECURSIVE Losses_Signed(_)
Losses_Signed(changes) ==
  IF changes = <<>> THEN 0
  ELSE (IF Head(changes) > 0 THEN 0 ELSE Head(changes)) + Losses_Signed(Tail(changes))

\* else losses += Math.abs(change)
RECURSIVE Losses(_)
Losses(changes) ==
  IF changes = <<>> THEN 0
  ELSE (IF Head(changes) > 0 THEN 0 ELSE Abs(Head(changes))) + Losses(Tail(changes))

RsiOfAverages_FlatIsNeutral(avgGain, avgLoss) ==
  IF avgLoss = Zero THEN (IF avgGain = Zero THEN Num(50) ELSE Num(100))
  ELSE Minus(Num(100), Over(Num(100), Plus(Num(1), Over(avgGain, avgLoss))))

\* avgLoss === 0 gives 100, else 100 - 100 / (1 + avgGain / avgLoss)
RsiOfAverages(avgGain, avgLoss) ==
  IF avgLoss = Zero THEN Num(100)
  ELSE Minus(Num(100), Over(Num(100), Plus(Num(1), Over(avgGain, avgLoss))))

\* BacktestService.calculateRSI(closes, period)
BtCalculateRSI(closes, period) ==
  IF Len(closes) < period + 1 THEN Num(50)
  ELSE RsiOfAverages(Norm(Gains(LastOf(Changes(closes), period)), period),
                     Norm(Losses(LastOf(Changes(closes), period)), period))

\* MarketAnalysisService.calculateRSI(ohlcv, period): the closes are column 4
LiveCalculateRSI(ohlcv, period) ==
  IF Len(ohlcv) < period + 1 THEN Num(50)
  ELSE RsiOfAverages(
         Norm(Gains(LastOf(Changes([i \in 1..Len(ohlcv) |-> ohlcv[i][5]]), period)), period),
         Norm(Losses(LastOf(Changes([i \in 1..Len(ohlcv) |-> ohlcv[i][5]]), period)), period))

IndInit ==
  \/ \E score \in Scores : bar = [kind |-> "score", stage |-> "input", score |-> score]
  \/ \E closes \in ClosesInputs :
       bar = [kind |-> "closes", stage |-> "input", closes |-> closes]

\* the end of calculateRegime in both services: the score is given its name
ClassifyScore ==
  /\ mode = "ind" /\ bar.kind = "score" /\ bar.stage = "input"
  /\ bar' = [kind |-> "score", stage |-> "classified", score |-> bar.score,
             regime |-> RegimeOfScore(bar.score),
             liveRegime |-> LiveRegimeOfScore(bar.score)]
  /\ UNCHANGED <<mode, led, now, btVars, liveVars>>

\* both services compute the RSI of the series, and their classifiers take the RSI's
\* part of the score from it
CalculateIndicators ==
  /\ mode = "ind" /\ bar.kind = "closes" /\ bar.stage = "input"
  /\ bar' = [kind |-> "closes", stage |-> "computed", closes |-> bar.closes,
             rsi |-> BtCalculateRSI(bar.closes, RsiPeriod),
             liveRsi |-> LiveCalculateRSI(Ohlcv(bar.closes), RsiPeriod),
             rsiScore |-> RsiScore(BtCalculateRSI(bar.closes, RsiPeriod)),
             liveRsiScore |->
               LiveRsiScore(LiveCalculateRSI(Ohlcv(bar.closes), RsiPeriod),
                            DEFAULT_THRESHOLDS)]
  /\ UNCHANGED <<mode, led, now, btVars, liveVars>>

NextInd == ClassifyScore \/ CalculateIndicators

InitInd ==
  /\ mode = "ind" /\ led = LedgerIdle /\ now = ClockStart /\ IndInit
  /\ BacktestQuiet /\ LiveIdle

SpecInd == InitInd /\ [][NextInd]_vars

NextBT ==
  \/ \E r \in Runs, id \in StrategyIds, c \in Capitals :
       PostBacktestRun(r, [strategyId |-> id, initialCapital |-> c])
  \/ \E r \in Runs, insertOk \in BOOLEAN : BarStep(r, insertOk)
  \/ \E r \in Runs : CompleteBacktest(r)
  \/ Tick

InitBT == mode = "backtest" /\ led = LedgerIdle /\ bar = NoBar /\ BacktestInit /\ LiveIdle

SpecBT == InitBT /\ [][NextBT]_vars

\* the live bot under concurrency and failures: overlapping cycles, start / stop /
\* pause at any moment, an exchange that may reject an order, writes that may fail
NextLive ==
  \/ \E c \in Cycles, a \in ControlAnalyses : Start(c, a)
  \/ StartArm
  \/ Stop
  \/ Pause
  \/ \E t \in 1..MaxTimers, c \in Cycles, a \in ControlAnalyses : TimerFire(t, c, a)
  \/ \E c \in Cycles, a \in ControlAnalyses : RunManualCycle(c, a)
  \/ \E c \in Cycles, id \in 0..MaxPositions, price \in LivePrices, filled \in BOOLEAN :
       ExecuteStrategy(c, id, price, filled)
  \/ \E c \in Cycles, stored \in BOOLEAN : WritePosition(c, stored)
  \/ \E c \in Cycles, stored \in BOOLEAN : WriteLastDca(c, stored)
  \/ \E c \in Cycles, stored \in BOOLEAN : InsertTransaction(c, stored)
  \/ \E c \in Cycles : FinishCycle(c)
  \/ \E c \in Cycles : HandleError(c)
  \/ Tick

InitLive ==
  /\ mode = "live" /\ led = LedgerIdle /\ bar = NoBar /\ now = ClockStart /\ BacktestQuiet /\ LiveStart

SpecLive == InitLive /\ [][NextLive]_vars

\* the live bot trading: one cycle after the other and every write stored, under
\* any market the analysis may report, an exchange that may reject an order and
\* any strategy settings the API accepts
NextTrade ==
  \/ \E a \in Analyses : Start(1, a)
  \/ StartArm
  \/ \E t \in 1..MaxTimers, a \in Analyses : TimerFire(t, 1, a)
  \/ \E id \in 0..MaxPositions, price \in LivePrices, filled \in BOOLEAN :
       ExecuteStrategy(1, id, price, filled)
  \/ WritePosition(1, TRUE)
  \/ WriteLastDca(1, TRUE)
  \/ InsertTransaction(1, TRUE)
  \/ FinishCycle(1)
  \/ HandleError(1)
  \/ \E sid \in StrategyKeys, updates \in StrategyUpdates : UpdateStrategy(sid, updates)
  \/ Tick

InitTrade ==
  /\ mode = "trade" /\ led = LedgerIdle /\ bar = NoBar /\ now = ClockStart /\ BacktestQuiet /\ LiveStart

SpecTrade == InitTrade /\ [][NextTrade]_vars

\* the live bot while the exchange rejects every order: one cycle after the other,
\* started, stopped, paused and asked for manual cycles at any moment
NextHealth ==
  \/ \E a \in ControlAnalyses : Start(1, a)
  \/ StartArm
  \/ Stop
  \/ Pause
  \/ \E t \in 1..MaxTimers, a \in ControlAnalyses : TimerFire(t, 1, a)
  \/ \E a \in ControlAnalyses : RunManualCycle(1, a)
  \/ \E id \in 0..MaxPositions, price \in LivePrices : ExecuteStrategy(1, id, price, FALSE)
  \/ FinishCycle(1)
  \/ HandleError(1)
  \/ Tick

InitHealth ==
  /\ mode = "health" /\ led = LedgerIdle /\ bar = NoBar /\ now = ClockStart /\ BacktestQuiet /\ LiveStart

SpecHealth == InitHealth /\ [][NextHealth]_vars

\* PUT /api/strategies/:id lowering a strategy's position cap
CapUpdates == {[maxPositionUsdt |-> 100]}

\* the live bot's books: one cycle after the other, every order filled and every
\* write stored, under any market the analysis may report and a position cap the
\* API may have lowered
NextBooks ==
  \/ \E a \in Analyses : Start(1, a)
  \/ StartArm
  \/ \E t \in 1..MaxTimers, a \in Analyses : TimerFire(t, 1, a)
  \/ \E id \in 0..MaxPositions, price \in LivePrices : ExecuteStrategy(1, id, price, TRUE)
  \/ WritePosition(1, TRUE)
  \/ WriteLastDca(1, TRUE)
  \/ InsertTransaction(1, TRUE)
  \/ FinishCycle(1)
  \/ \E sid \in StrategyKeys, updates \in CapUpdates : UpdateStrategy(sid, updates)
  \/ Tick

InitBooks ==
  /\ mode = "books" /\ led = LedgerIdle /\ bar = NoBar /\ now = ClockStart /\ BacktestQuiet /\ LiveStart

SpecBooks == InitBooks /\ [][NextBooks]_vars


NextLedger == LedgerBuyStep \/ LedgerSellStep

InitLedger == mode = "ledger" /\ bar = NoBar /\ LedgerInit /\ BacktestIdle /\ LiveIdle

SpecLedger == InitLedger /\ [][NextLedger]_vars

\* the program as a whole: one of the settings above
Init ==
  InitLedger \/ InitBT \/ InitLive \/ InitTrade \/ InitHealth \/ InitBooks \/ InitBar
  \/ InitInd

Next ==
  \/ mode = "ledger" /\ NextLedger
  \/ mode = "backtest" /\ NextBT
  \/ mode = "live" /\ NextLive
  \/ mode = "trade" /\ NextTrade
  \/ mode = "health" /\ NextHealth
  \/ mode = "books" /\ NextBooks
  \/ mode = "bar" /\ NextBar
  \/ mode = "ind" /\ NextInd

Spec == Init /\ [][Next]_vars

(***************************************************************************)
(* Round trips on the ledger                                               *)
(***************************************************************************)
\* the last two operations were a buy and then a sell of the same amount at the
\* same price, both without a fee
RoundTrip ==
  /\ led.prev.op = "buy" /\ led.last.op = "sell"
  /\ led.last.amount = led.prev.amount /\ led.last.price = led.prev.price
  /\ led.prev.fee = Zero /\ led.last.fee = Zero

\* the sell realized nothing and amount and cost basis are what they were before the buy
RoundTripLaw ==
  /\ led.last.profit = Zero
  /\ LedAmount(led) = PosAmount(led.kind, led.prev.before)
  /\ LedCost(led) = PosCost(led.kind, led.prev.before)

PreBuyEmpty ==
  /\ PosAmount(led.kind, led.prev.before) = Zero
  /\ PosCost(led.kind, led.prev.before) = Zero

PreBuyHeldAtTradePrice ==
  /\ Less(Zero, PosAmount(led.kind, led.prev.before))
  /\ PosAvg(led.kind, led.prev.before) = led.prev.price

\* C10 as stated: from every ledger state, empty or holding at any average entry
\* price, a zero-fee buy and sell of the same amount at the same price realizes
\* profit 0 and restores amount and cost basis.
C10_RoundTripAnyState == RoundTrip => RoundTripLaw

\* C10 amended: the round-trip law holds when the ledger was empty before the buy
\* or held a position whose average entry price equals the trade price.
C10_RoundTripAtAverage ==
  (RoundTrip /\ (PreBuyEmpty \/ PreBuyHeldAtTradePrice)) => RoundTripLaw

\* a round trip completed on a ledger that already held a position at the trade price
C10_Witness == RoundTrip /\ PreBuyHeldAtTradePrice /\ RoundTripLaw

(***************************************************************************)
(* Replay of a backtest                                                    *)
(***************************************************************************)
\* both runs finished, and they were given the same strategy and capital (the bar
\* series is the one history both read)
SameReplay ==
  /\ runs[1].status = "completed" /\ runs[2].status = "completed"
  /\ runs[1].strategyId = runs[2].strategyId
  /\ runs[1].initialCapital = runs[2].initialCapital

\* C1: two runs of the simulation on the same bars, strategy and capital produce
\* the same trade list and the same metrics, whatever the time each run executes at.
C1_ReplayDeterminism ==
  SameReplay => /\ runs[1].trades = runs[2].trades
                /\ runs[1].metrics = runs[2].metrics

(***************************************************************************)
(* Backtest requests                                                       *)
(***************************************************************************)
\* the request behind run r passed the strategy lookup: a run record exists
HasRecord(r) == runs[r].status \notin {"none", "rejected"}

C12_UnknownStrategyRejected ==
  \A r \in Runs :
    (requests[r] # NoRequest /\ requests[r].strategyId \notin STRATEGY_REGISTRY)
    => runs[r].status = "rejected" /\ runs[r].i = 0

(***************************************************************************)
(* The strategies' gates, on one bar                                       *)
(***************************************************************************)
\* the bar has gone through an iteration of simulateStrategy
BarSimulated == bar.kind = "backtest" /\ bar.stage = "simulated"

\* the portfolio the strategy was handed on the bar
BarPortfolio == PortfolioOf(bar.run, bar.day.close)

\* the strategy reads greed or extreme greed on the bar and its unrealized profit is
\* below its minProfitToSell
GreedBelowGate ==
  /\ bar.strategyRegime \in {"greed", "extreme_greed"}
  /\ Less(BarPortfolio.unrealizedPnlPercent,
          Num(Params(bar.run.strategyId).minProfitToSell))

\* a sell was decided at a profit of at least minProfitToSell
SoldAboveGate ==
  bar.decision.action = "sell"
  => Leq(Num(Params(bar.run.strategyId).minProfitToSell),
         BarPortfolio.unrealizedPnlPercent)

\* C15 as stated: every variant but the trend follower sells only at a profit of at
\* least minProfitToSell, and below it in greed or extreme greed the decision is hold.
C15_BelowGateHolds ==
  (BarSimulated /\ bar.run.strategyId # "momentum")
  => /\ SoldAboveGate
     /\ GreedBelowGate => bar.decision.action = "hold"

\* C15 amended: every variant but the trend follower sells only at a profit of at
\* least minProfitToSell; below it in greed or extreme greed the decision is never a
\* sell: it is hold, or the aggressive variant's buy that rebalances an allocation
\* below its minPositionPercent.
C15_SellGate ==
  (BarSimulated /\ bar.run.strategyId # "momentum")
  => /\ SoldAboveGate
     /\ GreedBelowGate
        => \/ bar.decision.action = "hold"
           \/ /\ bar.run.strategyId = "fear-greed-aggressive"
              /\ bar.decision = Buy(bar.decision.amount, "Rebalancing to minimum position")
              /\ Less(PositionPercent(BarPortfolio),
                      Num(AggressiveParams.minPositionPercent))

\* the moderate variant holds a position above its floor at 12% profit in greed, and
\* the decision is hold
C15_Witness ==
  /\ BarSimulated /\ bar.run.strategyId = "fear-greed-moderate"
  /\ bar.strategyRegime = "greed"
  /\ BarPortfolio.unrealizedPnlPercent = Num(12)
  /\ Less(MinCrypto(ModerateParams, MarketOf(bar.day), BarPortfolio),
          BarPortfolio.cryptoAmount)
  /\ bar.decision.action = "hold"

\* C17: no variant decides a buy when the allocation cryptoValue / totalValue x 100
\* is at or above its maxPositionPercent.
C17_PositionCeiling ==
  (BarSimulated /\ bar.decision.action = "buy")
  => ~Leq(Num(Params(bar.run.strategyId).maxPositionPercent),
          PositionPercent(BarPortfolio))

\* the moderate variant in fear, with cash and no recent buy, is at or above its
\* ceiling of 80% and holds
C17_Witness ==
  /\ BarSimulated /\ bar.run.strategyId = "fear-greed-moderate"
  /\ bar.strategyRegime \in {"fear", "extreme_fear"}
  /\ Less(Num(100), bar.run.cash) /\ bar.run.lastBuyTime = 0
  /\ Leq(Num(ModerateParams.maxPositionPercent), PositionPercent(BarPortfolio))
  /\ bar.decision.action = "hold"

\* the holdings left after the bar, valued at its price, and the total value then
RemainingValue == Times(bar.after.position.amount, bar.day.close)
TotalValueAfter == Plus(bar.after.cash, RemainingValue)

\* C18: after a sell executed in the backtest the remaining holdings valued at the
\* bar price are at least minPositionPercent percent of the portfolio's total value.
C18_SellFloor ==
  (BarSimulated /\ bar.after.execution = "sell")
  => Leq(Times(TotalValueAfter, Pct(Params(bar.run.strategyId).minPositionPercent)),
         RemainingValue)

\* a sell that the floor cut short: less than the variant's percentage was sold and
\* what remains is exactly the floor of the total value before the sell
C18_Witness ==
  /\ BarSimulated /\ bar.after.execution = "sell"
  /\ Params(bar.run.strategyId).minPositionPercent > 0
  /\ Less(bar.after.trade.amount,
          Times(bar.run.position.amount,
                Pct(Params(bar.run.strategyId).sellAmountPercent)))
  /\ RemainingValue =
       Times(BarPortfolio.totalValue, Pct(Params(bar.run.strategyId).minPositionPercent))

(***************************************************************************)
(* The accounting of one executed trade in a backtest                      *)
(***************************************************************************)
\* a buy, or a sell, was executed on the bar
BarBought == BarSimulated /\ bar.after.execution = "buy"
BarSold == BarSimulated /\ bar.after.execution = "sell"

\* C24: an executed buy of U USD at price P adds U / P to the amount and exactly U
\* to the cost basis, charges a fee of 0.1% of U and debits cash by U + fee.
C24_BuySplit ==
  BarBought
  => /\ bar.after.position.amount =
          Plus(bar.run.position.amount, Over(bar.after.trade.valueUsdt, bar.day.close))
     /\ bar.after.position.costBasis =
          Plus(bar.run.position.costBasis, bar.after.trade.valueUsdt)
     /\ bar.after.trade.fee = Times(bar.after.trade.valueUsdt, Norm(1, 1000))
     /\ bar.after.cash =
          Minus(bar.run.cash, Plus(bar.after.trade.valueUsdt, bar.after.trade.fee))

\* a buy into a position already held, with a fee charged to cash alone
C24_Witness ==
  /\ BarBought /\ Less(Zero, bar.run.position.amount)
  /\ Less(Zero, bar.after.trade.fee)
  /\ Minus(bar.after.position.costBasis, bar.run.position.costBasis)
       = bar.after.trade.valueUsdt
  /\ Less(Plus(bar.after.cash, bar.after.trade.valueUsdt), bar.run.cash)

\* C28: cash is never negative after a bar; every executed buy spends at most 99% of
\* the cash held at the bar and at least 10 USD, so the buy plus its fee is at most
\* the cash held.
C28_CashNeverNegative ==
  /\ BarSimulated => Leq(Zero, bar.after.cash)
  /\ BarBought
     => /\ Leq(bar.after.trade.valueUsdt, Times(bar.run.cash, Pct(99)))
        /\ Leq(Num(10), bar.after.trade.valueUsdt)
        /\ Leq(Plus(bar.after.trade.valueUsdt, bar.after.trade.fee), bar.run.cash)

\* a buy of the whole 99% of the cash: what is left after the fee is positive
C28_Witness ==
  /\ BarBought
  /\ bar.after.trade.valueUsdt = Times(bar.run.cash, Pct(99))
  /\ Less(Zero, bar.after.cash)
  /\ Less(bar.after.cash, Times(bar.run.cash, Pct(1)))

\* C29: an executed trade leaves the portfolio value at the bar price equal to the
\* value before it minus the trade's fee; a bar without an executed trade leaves cash
\* and position unchanged.
C29_ValueConserved ==
  /\ (BarBought \/ BarSold)
     => TotalValueAfter = Minus(BarPortfolio.totalValue, bar.after.trade.fee)
  /\ (BarSimulated /\ bar.after.execution = "none")
     => bar.after.cash = bar.run.cash /\ bar.after.position = bar.run.position

\* a sell was executed at a price other than the entry price, with a fee
C29_Witness ==
  /\ BarSold /\ Less(Zero, bar.after.trade.fee)
  /\ bar.day.close # bar.run.position.avgEntryPrice
  /\ Less(TotalValueAfter, BarPortfolio.totalValue)

(***************************************************************************)
(* The position floor of the aggressive variants                           *)
(***************************************************************************)
\* the allocation on the bar is below the variant's minPositionPercent and there is
\* cash (more than the 100 USD the rebalance asks for)
BelowFloorWithCash ==
  /\ BarSimulated
  /\ Less(PositionPercent(BarPortfolio),
          Num(Params(bar.run.strategyId).minPositionPercent))
  /\ Less(Num(100), bar.run.cash)

\* the USD that bring the allocation up to minPositionPercent
FloorGap ==
  Times(Over(Minus(Num(Params(bar.run.strategyId).minPositionPercent),
                   PositionPercent(BarPortfolio)), Num(100)),
        BarPortfolio.totalValue)

\* C26: every variant of category aggressive whose allocation is below its
\* minPositionPercent, with cash available, decides a buy sized to close the gap,
\* whatever the regime or trend.
C26_FloorRebalance ==
  (BelowFloorWithCash /\ Category(bar.run.strategyId) = "aggressive")
  => bar.decision.action = "buy" /\ bar.decision.amount = FloorGap

(***************************************************************************)
(* The buy throttle in a backtest                                          *)
(***************************************************************************)
\* the hours the variant requires between two buys, in the regime it read
RequiredHours(id, regime) ==
  Times(Num(Params(id).buyFrequencyHours),
        IF id = "fear-greed-moderate" /\ regime = "extreme_fear"
        THEN Norm(1, 2) ELSE Num(1))

\* a buy other than buy-and-hold's first purchase and the floor rebalance
RegularBuy(trade) ==
  /\ trade.action = "buy"
  /\ trade.reason \notin {"Initial HODL purchase", "Rebalancing to minimum position"}

\* C16: a regular buy is executed at a bar only if the time from the run's previous
\* buy to that bar is at least the variant's buyFrequencyHours (half of it for the
\* moderate variant in extreme fear).
C16_BuyThrottle ==
  \A r \in Runs :
    \A j, k \in 1..Len(runs[r].trades) :
      (j < k /\ runs[r].trades[j].action = "buy" /\ RegularBuy(runs[r].trades[k]))
      => Leq(RequiredHours(runs[r].strategyId, runs[r].trades[k].regime),
             Num(runs[r].trades[k].timestamp - runs[r].trades[j].timestamp))

(***************************************************************************)
(* Interleaved backtest runs                                               *)
(***************************************************************************)
\* what Date.now() can return during a run
ClockReadings == {ClockStart + k * ClockStep : k \in 0..MaxTicks}

\* the run of strategy id alone on history h after n iterations of its loop, the
\* n-th of which reads clocks[n]
RECURSIVE AloneAfter(_, _, _, _, _)
AloneAfter(id, capital, h, clocks, n) ==
  IF n = 0 THEN StartedRun(id, capital)
  ELSE SimulateDay(AloneAfter(id, capital, h, clocks, n - 1), h, clocks[n], TRUE)

\* run has the locals, the trades, the snapshots and the equity curve of alone, and
\* once completed the metrics computed from alone
SameResults(run, alone) ==
  /\ run.i = alone.i
  /\ run.cash = alone.cash
  /\ run.position = alone.position
  /\ run.lastBuyTime = alone.lastBuyTime
  /\ run.trades = alone.trades
  /\ run.snapshots = alone.snapshots
  /\ run.equityCurve = alone.equityCurve
  /\ run.status = "completed" => run.metrics = CalculateMetrics(alone)

StatedRegime(s) ==
  IF s <= -50 THEN "extreme_fear"
  ELSE IF s <= -20 THEN "fear"
  ELSE IF s >= 50 THEN "extreme_greed"
  ELSE IF s >= 20 THEN "greed"
  ELSE "neutral"

\* C21: for every integer score from -100 to 100 the backtest classifier and the
\* live classifier both name the regime by the same five breakpoints: at most -50
\* extreme_fear, at most -20 fear, at least 50 extreme_greed, at least 20 greed,
\* otherwise neutral.
C21_RegimeIsStepOfScore ==
  (bar.kind = "score" /\ bar.stage = "classified")
  => /\ bar.regime = StatedRegime(bar.score)
     /\ bar.liveRegime = StatedRegime(bar.score)

\* a score on a breakpoint has been classified by both
C21_Witness ==
  /\ bar.kind = "score" /\ bar.stage = "classified"
  /\ bar.score = -50
  /\ bar.regime = "extreme_fear" /\ bar.liveRegime = "extreme_fear"

\* the series of closes has gone through both RSI implementations
RsiComputed == bar.kind = "closes" /\ bar.stage = "computed"

\* C22: for every series of closes, of any length, the RSI of both implementations
\* lies in [0, 100].
C22_RsiInRange ==
  RsiComputed
  => /\ Leq(Zero, bar.rsi) /\ Leq(bar.rsi, Num(100))
     /\ Leq(Zero, bar.liveRsi) /\ Leq(bar.liveRsi, Num(100))

\* a series of more than period + 1 closes with rises and falls gives an RSI strictly
\* inside the range, other than the default 50
C22_Witness ==
  /\ RsiComputed /\ Len(bar.closes) > RsiPeriod + 1
  /\ Less(Zero, bar.rsi) /\ Less(bar.rsi, Num(100)) /\ bar.rsi # Num(50)
  /\ bar.liveRsi = bar.rsi

\* closes flat at 100 over 20 bars
ScenarioA == RsiComputed /\ bar.closes = Ramp(20, 0)

\* C23 as stated: for closes flat at 100 over 20 bars the RSI is 100 and the RSI's
\* part of the classifier's score is 0.
C23_FlatRsiScoresNothing ==
  ScenarioA
  => /\ bar.rsi = Num(100) /\ bar.liveRsi = Num(100)
     /\ bar.rsiScore = 0 /\ bar.liveRsiScore = 0

\* C23 amended: for closes flat at 100 over 20 bars the RSI is 100, and the RSI's
\* part of the score is the +30 of the extreme-greed bucket, in both classifiers.
C23_FlatRsiScoresExtremeGreed ==
  ScenarioA
  => /\ bar.rsi = Num(100) /\ bar.liveRsi = Num(100)
     /\ bar.rsiScore = 30 /\ bar.liveRsiScore = 30

\* scenario A has been computed
C23_Witness == ScenarioA /\ bar.rsi = Num(100) /\ bar.rsiScore = 30

(***************************************************************************)
(* The regime score                                                        *)
(***************************************************************************)
\* the four contributions as the specification states them, for thresholds t
ScoreAsStated(price, ma200, ma50, rsi, percentFromAth, t) ==
  LET deviation == Times(Over(Minus(price, ma200), ma200), Num(100))
      ath == IF Leq(percentFromAth, Num(t.extremeFearThreshold)) THEN -40
             ELSE IF Leq(percentFromAth, Num(t.fearThreshold)) THEN -25
             ELSE IF Leq(Num(-10), percentFromAth) THEN 20 ELSE 0
      strength == IF Leq(Num(t.extremeGreedRsiThreshold), rsi) THEN 30
                  ELSE IF Leq(Num(t.greedRsiThreshold), rsi) THEN 20
                  ELSE IF Leq(rsi, Num(30)) THEN -30
                  ELSE IF Leq(rsi, Num(40)) THEN -15 ELSE 0
      trend == IF ma200 = Null THEN 0
               ELSE IF Less(deviation, Num(-20)) THEN -20
               ELSE IF Less(deviation, Zero) THEN -10
               ELSE IF Less(Num(50), deviation) THEN 20
               ELSE IF Less(Num(20), deviation) THEN 10 ELSE 0
      cross == IF ma200 = Null \/ ma50 = Null THEN 0
               ELSE IF Less(Times(ma200, Norm(105, 100)), ma50) THEN 10
               ELSE IF Less(ma50, Times(ma200, Norm(95, 100))) THEN -10 ELSE 0
  IN  ath + strength + trend + cross

\* C20: the score handed to a strategy, by the backtest classifier and by the live
\* one alike, is the sum of the four contributions evaluated with that strategy's
\* own thresholds, and lies in -100..100.
C20_ScoreUsesOwnThresholds ==
  /\ BarSimulated
     => /\ bar.day.regimeScore =
             ScoreAsStated(bar.day.close, bar.day.ma200, bar.day.ma50, bar.day.rsi,
                           bar.day.percentFromAth, Params(bar.run.strategyId))
        /\ bar.day.regimeScore \in -100..100
  /\ (bar.kind = "live" /\ bar.stage = "analyzed")
     => /\ bar.regimeScore =
             ScoreAsStated(bar.price, bar.ma200, bar.ma50, bar.rsi14,
                           bar.percentFromAth, STRATEGY_PRESETS[bar.sid])
        /\ bar.regimeScore \in -100..100

(***************************************************************************)
(* The live loop: failures, atomicity, overlap, cancellation               *)
(***************************************************************************)
\* the ledger columns of a position row
Ledger(row) ==
  <<row.totalAmount, row.totalCostUsdt, row.averageEntryPrice, row.realizedProfitUsdt,
    row.totalBuys, row.totalSells>>

\* the exchange has just rejected an order
OrderRejected == orders'.sent = orders.sent + 1 /\ orders'.filled = orders.filled

\* cycle c has a fill in hand and is at the write named pc
HoldsFill(c, pc) == cycles[c].pc = pc /\ cycles[c].order # NoOrder

\* C2 amended: a position's ledger columns and a strategy's last-buy time change only
\* in a step of a cycle that holds the fill the exchange returned; when the exchange
\* rejects the order no table changes, the cycle is in the catch of runCycle, and
\* runCycle returns with the error counted.
C2_LedgerOnlyAfterFill ==
  [][/\ \A id \in 1..Len(positions') :
          Ledger(positions'[id]) #
            (IF id <= Len(positions) THEN Ledger(positions[id]) ELSE Ledger(NewPosition))
          => \E c \in Cycles : HoldsFill(c, "position") /\ cycles[c].pid = id
     /\ \A sid \in StrategyKeys :
          strategies'[sid].lastDcaAt # strategies[sid].lastDcaAt
          => \E c \in Cycles : HoldsFill(c, "lastDca") /\ cycles[c].sid = sid
     /\ OrderRejected
          => /\ \A id \in 1..Len(positions) : positions'[id] = positions[id]
             /\ strategies' = strategies /\ transactions' = transactions
             /\ \E c \in Cycles : cycles[c].pc = "strategy" /\ cycles'[c].pc = "error"
     /\ \A c \in Cycles :
          cycles[c].pc = "error" /\ cycles'[c].pc = "idle"
          => bot'.consecutiveErrors = bot.consecutiveErrors + 1
    ]_vars

\* C2 as stated: the rejection reaches the caller of the cycle, so a start() that
\* awaits a cycle whose order was rejected does not go on to arm its timer.
C2_ErrorReachesCycleCaller ==
  [][\A c \in Cycles :
       /\ cycles[c].pc = "error" /\ cycles[c].owner = "start"
       /\ cycles'[c].pc = "idle"
       => starting' = "no"
    ]_vars

\* after a filled buy a later order was rejected: the error is counted and the
\* position and the transactions are what the filled buy left
C2_Witness ==
  /\ orders.filled = 1 /\ orders.sent = 2
  /\ bot.consecutiveErrors = 1
  /\ Len(transactions) = 1
  /\ \E id \in 1..Len(positions) :
       positions[id].totalBuys = 1 /\ positions[id].totalSells = 0

\* the transactions recorded for position id
TransactionsOf(id) == {k \in 1..Len(transactions) : transactions[k].positionId = id}

\* a cycle is between the position write and the transaction insert for position id
InFlight(id) ==
  \E c \in Cycles : cycles[c].pc \in {"lastDca", "transaction"} /\ cycles[c].pid = id

\* C3: apart from a trade still being written, a position has been changed by a buy
\* or sell exactly as often as a transaction is recorded for it, also after a
\* write has failed.
C3_LedgerAtomicWithRecord ==
  \A id \in 1..Len(positions) :
    ~InFlight(id) =>
      Cardinality(TransactionsOf(id)) = positions[id].totalBuys + positions[id].totalSells

\* C4: at no time are two cycles executing.
C4_TicksNeverOverlap == Cardinality({c \in Cycles : cycles[c].pc # "idle"}) <= 1

\* C5: once stop() or pause() has returned and until start() is called again the bot
\* is not running and no interval timer is armed, and never is more than one armed.
C5_CancelStopsTicks ==
  /\ quiet => ~bot.isRunning /\ timers = {}
  /\ Cardinality(timers) <= 1

(***************************************************************************)
(* The live loop: health and manual cycles                                 *)
(***************************************************************************)
\* C13: from the moment the consecutive-error limit pauses the bot (status error)
\* until it is started again the bot is not running, no interval timer is armed and
\* no cycle executes.
C13_AutoPauseHalts ==
  bot.status = "error"
  => /\ ~bot.isRunning /\ timers = {}
     /\ \A c \in Cycles : cycles[c].pc = "idle"

\* C14: a manual run-cycle request runs a cycle whether or not the bot is running.
C14_ManualCycleAlwaysRuns == manual # "returned"

(***************************************************************************)
(* The live loop trading                                                   *)
(***************************************************************************)
\* C6: every sell the live bot has executed realized a profit >= 0.
C6_NeverSellsAtLoss ==
  \A k \in 1..Len(transactions) :
    transactions[k].action = "sell" => Leq(Zero, transactions[k].profitUsdt)

\* C7: the amount a position holds is never negative.
C7_AmountNeverNegative ==
  \A id \in 1..Len(positions) : Leq(Zero, positions[id].totalAmount)

C25_LedgerFrame ==
  /\ led.last.op = "sell"
     => /\ LedAvg(led) = PosAvg(led.kind, led.last.before)
        /\ led.kind = "live" => led.position.totalBuys = led.last.before.totalBuys
  /\ (led.last.op = "buy" /\ led.kind = "live")
     => /\ led.position.realizedProfitUsdt = led.last.before.realizedProfitUsdt
        /\ led.position.totalSells = led.last.before.totalSells

\* a sell that emptied a live position bought at another price: the average entry
\* price and the buy counter stand, the realized profit and the sell counter moved
C25_Witness ==
  /\ led.kind = "live" /\ led.last.op = "sell"
  /\ LedAmount(led) = Zero
  /\ LedAvg(led) # Null /\ LedAvg(led) # led.last.price
  /\ led.position.totalBuys > 0
  /\ led.position.totalSells = led.last.before.totalSells + 1
  /\ led.position.realizedProfitUsdt # led.last.before.realizedProfitUsdt

\* C9: after every buy the average entry price is cost basis / amount, in the
\* backtest ledger and in the live one.
C9_AverageIsCostOverAmount ==
  led.last.op = "buy" => LedAvg(led) = Over(LedCost(led), LedAmount(led))

\* a buy into a position held at another price: the average is neither price
C9_Witness ==
  /\ led.last.op = "buy" /\ Less(Zero, PosAmount(led.kind, led.last.before))
  /\ PosAvg(led.kind, led.last.before) # led.last.price
  /\ LedAvg(led) # led.last.price
  /\ LedAvg(led) = Over(LedCost(led), LedAmount(led))

(***************************************************************************)
(* The live bot's books: the position cap and the combined snapshot        *)
(***************************************************************************)
\* the cycle's handleAccumulation places a buy in this step, and the exchange
\* fills it
BuyPlaced(c) ==
  cycles[c].pc = "strategy" /\ cycles'[c].pc = "position" /\ cycles'[c].side = "buy"

\* the cap of the strategy row the cycle decides with
CapOf(c) == Num(cycles[c].rows[Head(cycles[c].todo)].maxPositionUsdt)

\* totalCostUsdt of the row executeBuy stores for the fill the cycle holds
CostAfterBuy(cycle) == Plus(cycle.position.totalCostUsdt, cycle.order.cost)

\* C27: a live buy never takes the cost of its position (totalCostUsdt) above the
\* maxPositionUsdt of the strategy it is placed for, and no buy is placed for a
\* position whose cost has reached that cap.
C27_CostWithinCap ==
  [][\A c \in Cycles :
       BuyPlaced(c)
       => /\ Less(cycles'[c].position.totalCostUsdt, CapOf(c))
          /\ Leq(CostAfterBuy(cycles'[c]), CapOf(c))]_vars

\* the second half of C27 on its own: a buy is only placed for a position whose
\* cost is below the cap
C27_NoBuyAtCap ==
  [][\A c \in Cycles :
       BuyPlaced(c) => Less(cycles'[c].position.totalCostUsdt, CapOf(c))]_vars

\* the ledger getOrCreatePosition hands a cycle for the strategy when it names row
\* id: the row's, or that of the empty row it inserts
Handed(id) == IF id = 0 THEN NewPosition ELSE positions[id]

\* the sums of a column over the rows getOrCreatePosition names for the strategies
RECURSIVE SumOver(_, _, _)
SumOver(activeStrategies, pick, column) ==
  IF activeStrategies = <<>> THEN Zero
  ELSE Plus(SumOver(Tail(activeStrategies), pick, column),
            Handed(pick[Head(activeStrategies)])[column])

\* the cycle ends in this step and its combined row is stored
SnapshotTaken(c) == cycles[c].pc = "finish" /\ cycles'[c].pc = "idle"

\* C30: the combined row a cycle stores at its end holds, as cryptoAmount, cost
\* basis and realized profit, the sums over the rows getOrCreatePosition returns
\* for the enabled strategies, rows of status 'partial' included.
C30_SnapshotTotalsLedgers ==
  [][\A c \in Cycles :
       SnapshotTaken(c)
       => \E pick \in [StrategyKeys -> 0..Len(positions)] :
            /\ \A k \in StrategyKeys : pick[k] \in PositionChoices(k)
            /\ snapshot'.cryptoAmount = SumOver(ActiveStrategies, pick, "totalAmount")
            /\ snapshot'.totalCostBasisUsdt
                 = SumOver(ActiveStrategies, pick, "totalCostUsdt")
            /\ snapshot'.realizedProfitUsdt
                 = SumOver(ActiveStrategies, pick, "realizedProfitUsdt")]_vars

====
